---- MODULE Spec2Model ----
(***************************************************************************)
(* Contact-form backend: submission pipeline (validateContact middleware,  *)
(* ContactController.submitContact, the Contact schema's validation and    *)
(* pre-save hooks), the tag/priority classifier, the detached notification *)
(* dispatcher and the status operations on stored Contacts.                *)
(*                                                                         *)
(* Text is a sequence of one-character strings, so that trimming,          *)
(* lower-casing, HTML escaping, length checks and substring search are     *)
(* computed on the characters as the JavaScript does.                      *)
(***************************************************************************)
EXTENDS Integers, Sequences, FiniteSets, TLC

VARIABLES
  isConfigured,  \* emailService.isConfigured, fixed by the constructor
  contacts,      \* the Contact collection: _id -> stored document
  requests,      \* POST /submit requests: slot -> position, input, answer
  mail,          \* per Contact _id and recipient: the sendEmail call
  notify,        \* per Contact _id: the sendEmailNotifications promise
  now,           \* the clock read by new Date()
  everReplied,   \* history: the ids whose status has at some point been replied
  cls,           \* a document handed to the classifier on its own
  listing,       \* GET /messages: the query and what getContacts answers
  stats,         \* GET /stats and Contact.getStatistics: the reports
  patches,       \* PATCH /messages/:id/status requests: slot -> position, answer
  replies,       \* the answers given to requests that name a Contact by id
  outbox         \* per Contact _id: what the two notification mails were made of

\* the variables of the operator-facing requests
admin == <<listing, stats, patches, replies>>

vars == <<isConfigured, contacts, requests, mail, notify, now, everReplied, cls,
          listing, stats, patches, replies, outbox>>

-----------------------------------------------------------------------------
(* Characters and strings                                                  *)

Uppers == <<"A","B","C","D","E","F","G","H","I","J","K","L","M",
            "N","O","P","Q","R","S","T","U","V","W","X","Y","Z">>
Lowers == <<"a","b","c","d","e","f","g","h","i","j","k","l","m",
            "n","o","p","q","r","s","t","u","v","w","x","y","z">>
Digits == {"0","1","2","3","4","5","6","7","8","9"}

UpperSet == {Uppers[i] : i \in 1..Len(Uppers)}
LowerSet == {Lowers[i] : i \in 1..Len(Lowers)}
Letters == UpperSet \cup LowerSet
\* \w of a JavaScript regular expression
WordChars == Letters \cup Digits \cup {"_"}
\* \s of a JavaScript regular expression, and what String.prototype.trim strips
\* (the members that can be typed into a form field)
Whitespace == {" ", "\t", "\n", "\r"}

\* String.prototype.toLowerCase, one character
toLowerChar(c) ==
  IF c \in UpperSet
    THEN Lowers[CHOOSE i \in 1..Len(Uppers) : Uppers[i] = c]
    ELSE c

\* String.prototype.toLowerCase
toLowerCase(s) == [i \in 1..Len(s) |-> toLowerChar(s[i])]

\* String.prototype.trim
trim(s) ==
  IF \A i \in 1..Len(s) : s[i] \in Whitespace THEN <<>>
  ELSE SubSeq(s,
              CHOOSE i \in 1..Len(s) :
                s[i] \notin Whitespace /\ \A j \in 1..(i - 1) : s[j] \in Whitespace,
              CHOOSE i \in 1..Len(s) :
                s[i] \notin Whitespace /\ \A j \in (i + 1)..Len(s) : s[j] \in Whitespace)

\* whether kw occurs in s at position i
occursAt(s, kw, i) ==
  /\ s[i] = kw[1]
  /\ i + Len(kw) - 1 <= Len(s)
  /\ \A j \in 2..Len(kw) : s[i + j - 1] = kw[j]

\* String.prototype.includes
includes(s, kw) == \E i \in 1..(Len(s) - Len(kw) + 1) : occursAt(s, kw, i)

\* Array.prototype.some over a list of keywords
someIncluded(content, keywords) ==
  \E k \in 1..Len(keywords) : includes(content, keywords[k])

\* validator.escape, one character: & < > " ' / \ and the grave accent become
\* HTML entities (the grave accent is written "GRAVE": the lexer refuses it)
escapeChar(c) ==
  CASE c = "&"  -> <<"&","a","m","p",";">>
    [] c = "\"" -> <<"&","q","u","o","t",";">>
    [] c = "'"  -> <<"&","#","x","2","7",";">>
    [] c = "<"  -> <<"&","l","t",";">>
    [] c = ">"  -> <<"&","g","t",";">>
    [] c = "/"  -> <<"&","#","x","2","F",";">>
    [] c = "\\" -> <<"&","#","x","5","C",";">>
    [] c = "GRAVE" -> <<"&","#","9","6",";">>
    [] OTHER    -> <<c>>

RECURSIVE escape(_)
\* validator.escape: every character replaced by its escapeChar, in order
escape(s) ==
  IF s = <<>> THEN <<>>
  ELSE IF Len(s) = 1 THEN escapeChar(s[1])
  ELSE LET h == Len(s) \div 2
       IN  escape(SubSeq(s, 1, h)) \o escape(SubSeq(s, h + 1, Len(s)))

-----------------------------------------------------------------------------
(* The classifier: contactSchema.methods.extractTags / determinePriority   *)

commonTags ==
  <<
    [tag |-> "website", keywords |->
      << <<"w","e","b","s","i","t","e">>,
         <<"w","e","b">>,
         <<"s","i","t","e">>,
         <<"p","o","r","t","f","o","l","i","o">> >>],
    [tag |-> "mobile", keywords |->
      << <<"m","o","b","i","l","e">>,
         <<"a","p","p">>,
         <<"a","n","d","r","o","i","d">>,
         <<"i","o","s">>,
         <<"r","e","a","c","t"," ","n","a","t","i","v","e">> >>],
    [tag |-> "frontend", keywords |->
      << <<"f","r","o","n","t","e","n","d">>,
         <<"r","e","a","c","t">>,
         <<"v","u","e">>,
         <<"a","n","g","u","l","a","r">>,
         <<"j","a","v","a","s","c","r","i","p","t">>,
         <<"c","s","s">>,
         <<"h","t","m","l">> >>],
    [tag |-> "backend", keywords |->
      << <<"b","a","c","k","e","n","d">>,
         <<"n","o","d","e">>,
         <<"e","x","p","r","e","s","s">>,
         <<"p","y","t","h","o","n">>,
         <<"d","j","a","n","g","o">>,
         <<"p","h","p">>,
         <<"l","a","r","a","v","e","l">> >>],
    [tag |-> "database", keywords |->
      << <<"d","a","t","a","b","a","s","e">>,
         <<"m","o","n","g","o","d","b">>,
         <<"m","y","s","q","l">>,
         <<"p","o","s","t","g","r","e","s","q","l">>,
         <<"f","i","r","e","b","a","s","e">> >>],
    [tag |-> "ecommerce", keywords |->
      << <<"e","c","o","m","m","e","r","c","e">>,
         <<"s","h","o","p">>,
         <<"s","t","o","r","e">>,
         <<"p","a","y","m","e","n","t">>,
         <<"c","a","r","t">> >>],
    [tag |-> "api", keywords |->
      << <<"a","p","i">>,
         <<"r","e","s","t">>,
         <<"g","r","a","p","h","q","l">>,
         <<"e","n","d","p","o","i","n","t">> >>],
    [tag |-> "urgent", keywords |->
      << <<"u","r","g","e","n","t">>,
         <<"a","s","a","p">>,
         <<"i","m","m","e","d","i","a","t","e","l","y">>,
         <<"e","m","e","r","g","e","n","c","y">> >>],
    [tag |-> "collaboration", keywords |->
      << <<"c","o","l","l","a","b","o","r","a","t","e">>,
         <<"p","a","r","t","n","e","r">>,
         <<"t","e","a","m"," ","u","p">>,
         <<"w","o","r","k"," ","t","o","g","e","t","h","e","r">> >>],
    [tag |-> "freelance", keywords |->
      << <<"f","r","e","e","l","a","n","c","e">>,
         <<"c","o","n","t","r","a","c","t">>,
         <<"p","r","o","j","e","c","t">>,
         <<"h","i","r","e">> >>],
    [tag |-> "job", keywords |->
      << <<"j","o","b">>,
         <<"c","a","r","e","e","r">>,
         <<"p","o","s","i","t","i","o","n">>,
         <<"e","m","p","l","o","y","m","e","n","t">>,
         <<"h","i","r","e"," ","m","e">> >>]
  >>

urgentKeywords ==
  << <<"u","r","g","e","n","t">>,
     <<"a","s","a","p">>,
     <<"e","m","e","r","g","e","n","c","y">>,
     <<"i","m","m","e","d","i","a","t","e","l","y">>,
     <<"c","r","i","t","i","c","a","l">> >>

highPriorityKeywords ==
  << <<"i","m","p","o","r","t","a","n","t">>,
     <<"d","e","a","d","l","i","n","e">>,
     <<"h","i","r","i","n","g">>,
     <<"j","o","b"," ","o","f","f","e","r">>,
     <<"c","o","l","l","a","b","o","r","a","t","i","o","n">> >>

\* the template string "${this.subject} ${this.message}", lower-cased
content(doc) == toLowerCase(doc.subject \o <<" ">> \o doc.message)

extractTags(doc) ==
  {commonTags[t].tag : t \in {u \in 1..Len(commonTags) :
                               someIncluded(content(doc), commonTags[u].keywords)}}

\* determinePriority with the two lists looked up in the other order
determinePriorityHighFirst(doc) ==
  IF someIncluded(content(doc), highPriorityKeywords) THEN "high"
  ELSE IF someIncluded(content(doc), urgentKeywords) THEN "urgent"
  ELSE "normal"

determinePriority(doc) ==
  IF someIncluded(content(doc), urgentKeywords) THEN "urgent"
  ELSE IF someIncluded(content(doc), highPriorityKeywords) THEN "high"
  ELSE "normal"

-----------------------------------------------------------------------------
(* Field checks                                                            *)

positions(s, c) == {i \in 1..Len(s) : s[i] = c}

\* an isLength whose minimum is exclusive
isLengthAboveMin(s, min, max) == Len(s) > min /\ Len(s) <= max

\* validator.isLength(str, {min, max})
isLength(s, min, max) == Len(s) >= min /\ Len(s) <= max

\* the characters validator.isEmail accepts in an unquoted local part (ASCII)
EmailUserChars ==
  Letters \cup Digits \cup
  {"!","#","$","%","&","'","*","+","-","/","=","?","^","_","GRAVE","{","|","}","~"}

\* validator.isFQDN with its defaults (require_tld), over ASCII
isFQDN(d) ==
  LET dots == positions(d, ".")
      last == CHOOSE i \in dots : \A j \in dots : j <= i
  IN  /\ dots # {}
      /\ \A i \in 1..Len(d) : d[i] \in Letters \cup Digits \cup {"-", "."}
      /\ 1 \notin dots /\ Len(d) \notin dots
      /\ \A i \in dots : i + 1 \notin dots
      /\ Len(d) - last >= 2
      /\ \A i \in (last + 1)..Len(d) : d[i] \in Letters
      /\ d[1] # "-" /\ d[Len(d)] # "-"
      /\ \A i \in dots : d[i - 1] # "-" /\ d[i + 1] # "-"

\* validator.isEmail with its defaults: user@domain split at the last @,
\* a dot-atom user and a fully qualified domain
isEmail(s) ==
  LET ats == positions(s, "@")
      at == CHOOSE i \in ats : \A j \in ats : j <= i
      user == SubSeq(s, 1, at - 1)
      domain == SubSeq(s, at + 1, Len(s))
  IN  /\ ats # {}
      /\ user # <<>> /\ Len(user) <= 64
      /\ domain # <<>> /\ Len(domain) <= 254
      /\ isFQDN(domain)
      /\ \A i \in 1..Len(user) : user[i] \in EmailUserChars \cup {"."}
      /\ user[1] # "." /\ user[Len(user)] # "."
      /\ \A i \in 1..(Len(user) - 1) : ~(user[i] = "." /\ user[i + 1] = ".")

\* /^[^\s@]+@[^\s@]+\.[^\s@]+$/  (controller line 712 and the schema's email)
emailRegex(s) ==
  LET ats == positions(s, "@")
      at == CHOOSE i \in ats : TRUE
  IN  /\ Cardinality(ats) = 1
      /\ \A i \in 1..Len(s) : s[i] \notin Whitespace
      /\ at > 1
      /\ \E d \in positions(s, ".") : d > at + 1 /\ d < Len(s)

\* /^[a-zA-Z\s\-'.]+$/  (the schema's name validator)
nameRegex(s) ==
  /\ s # <<>>
  /\ \A i \in 1..Len(s) : s[i] \in Letters \cup Whitespace \cup {"-", "'", "."}

\* /javascript:/gi
hasJavascriptUrl(s) ==
  includes(toLowerCase(s), <<"j","a","v","a","s","c","r","i","p","t",":">>)

\* /on\w+\s*=/gi : "on", one or more word characters, optional white space, "="
hasEventHandler(s) ==
  LET t == toLowerCase(s)
  IN  \E i \in 1..Len(t) :
        /\ occursAt(t, <<"o","n">>, i)
        /\ \E j \in (i + 2)..Len(t) :      \* the last word character
             /\ \A k \in (i + 2)..j : t[k] \in WordChars
             /\ \E e \in (j + 1)..Len(t) : \* the "="
                  /\ t[e] = "="
                  /\ \A k \in (j + 1)..(e - 1) : t[k] \in Whitespace

\* /<script\b[^<]*(?:(?!<\/script>)<[^<]*)*<\/script>/gi : an opening
\* "<script" at a word boundary with a closing "</script>" after it
hasScriptElement(s) ==
  LET t == toLowerCase(s)
      open == <<"<","s","c","r","i","p","t">>
      close == <<"<","/","s","c","r","i","p","t",">">>
  IN  \E i \in 1..Len(t) :
        /\ occursAt(t, open, i)
        /\ (i + 7 > Len(t) \/ t[i + 7] \notin WordChars)
        /\ \E j \in (i + 7)..Len(t) : occursAt(t, close, j)

\* forbiddenPatterns.some(pattern => pattern.test(text))
hasForbiddenPattern(s) ==
  hasScriptElement(s) \/ hasJavascriptUrl(s) \/ hasEventHandler(s)

-----------------------------------------------------------------------------
(* Bounds of the model                                                     *)

\* POST /submit requests in one run of the notification system
MaxRequests == 2
\* POST /submit requests in one run of the store's life cycle
MaxStored == 1
\* the clock runs from 1 to MaxTime
MaxTime == 3
\* fragments per text handed to the classifier on its own
MaxFragments == 2
\* concurrent PATCH /messages/:id/status requests
MaxPatches == 2
\* the page numbers and page sizes asked of GET /messages
MaxPage == 3
MaxLimit == 2
\* answers kept of the requests that name a Contact by id
MaxReplies == 3

\* response.repliedAt not set
NoDate == 0

-----------------------------------------------------------------------------
(* The request bodies tried on POST /submit                                *)

Pad(n) == [i \in 1..n |-> "x"]

Inputs == <<
  [name |-> <<"A","d","a"," ","L","o","v","e","l","a","c","e">>,
   email |-> <<"A","d","a","@","E","x","a","m","p","l","e",".","c","o","m">>,
   subject |-> <<"C","o","l","l","a","b","o","r","a","t","i","o","n"," ","o","p","p","o","r","t","u","n","i","t","y">>,
   message |-> <<"I","'","d"," ","l","i","k","e"," ","t","o"," ","d","i","s","c","u","s","s"," ","a"," ","f","r","e","e","l","a","n","c","e"," ","p","r","o","j","e","c","t",","," ","i","t","'","s"," ","u","r","g","e","n","t",".">>,
   source |-> "absent"],
  [name |-> <<"B","o","b">>,
   email |-> <<"b","o","b","@","m","a","i","l",".","o","r","g">>,
   subject |-> <<" ","N","e","w"," ","j","o","b"," ">>,
   message |-> <<"o","f","f","e","r"," ","f","o","r"," ","y","o","u"," ","t","o","d","a","y">>,
   source |-> "mobile"],
  [name |-> <<"C","y"," ","Y","o","u","n","g">>,
   email |-> <<"c","y","@","s","i","t","e",".","i","o">>,
   subject |-> <<"H","e","l","l","o"," ","t","h","e","r","e">>,
   message |-> <<"H","i"," ">> \o Pad(201),
   source |-> "absent"],
  [name |-> <<"A">>,
   email |-> <<"b","a","d">>,
   subject |-> <<"H","e","y">>,
   message |-> <<"s","h","o","r","t">>,
   source |-> "absent"],
  [name |-> <<"O","'","B","r","i","e","n">>,
   email |-> <<"d","e","e","@","c","o","r","p",".","c","o","m">>,
   subject |-> <<"Q","u","i","c","k"," ","q","u","e","s","t","i","o","n">>,
   message |-> <<"P","l","e","a","s","e"," ","c","a","l","l"," ","m","e"," ","b","a","c","k",".">>,
   source |-> "absent"],
  [name |-> <<"R","2","D","2">>,
   email |-> <<"d","e","e","@","c","o","r","p",".","c","o","m">>,
   subject |-> <<"j","a","v","a","s","c","r","i","p","t",":"," ","a","l","e","r","t">>,
   message |-> <<"P","l","e","a","s","e"," ","c","a","l","l"," ","m","e"," ","b","a","c","k",".">>,
   source |-> "api"],
  [name |-> <<"D","e","e">>,
   email |-> <<"d","e","e","@","c","o","r","p",".","c","o","m">>,
   subject |-> <<"Q","u","i","c","k"," ","q","u","e","s","t","i","o","n">>,
   message |-> <<>>,
   source |-> "absent"],
  [name |-> <<"D","e","e">>,
   email |-> <<"d","e","e","@","c","o","r","p",".","c","o","m">>,
   subject |-> <<"Q","u","i","c","k"," ","q","u","e","s","t","i","o","n">>,
   message |-> <<"P","l","e","a","s","e"," ","c","a","l","l"," ","m","e"," ","b","a","c","k",".">>,
   source |-> "fax"]
,
  [name |-> <<"A","d","a"," ","L","o","v","e","l","a","c","e">>,
   email |-> <<"a","d","a","@","e","x","a","m","p","l","e",".","c","o","m">>,
   subject |-> <<"C","o","l","l","a","b","o","r","a","t","i","o","n"," ","o","p","p","o","r","t","u","n","i","t","y">>,
   message |-> <<"I","'","d"," ","l","i","k","e"," ","t","o"," ","d","i","s","c","u","s","s"," ","a"," ","f","r","e","e","l","a","n","c","e"," ","p","r","o","j","e","c","t",","," ","i","t","'","s"," ","u","r","g","e","n","t",".">>,
   source |-> "absent"],
  [name |-> <<"A">>,
   email |-> <<"d","e","e","@","c","o","r","p",".","c","o","m">>,
   subject |-> <<"Q","u","i","c","k"," ","q","u","e","s","t","i","o","n">>,
   message |-> <<"P","l","e","a","s","e"," ","c","a","l","l"," ","m","e"," ","b","a","c","k",".">>,
   source |-> "absent"],
  [name |-> <<"A","l">>,
   email |-> <<"d","e","e","@","c","o","r","p",".","c","o","m">>,
   subject |-> <<"Q","u","i","c","k"," ","q","u","e","s","t","i","o","n">>,
   message |-> <<"P","l","e","a","s","e"," ","c","a","l","l"," ","m","e"," ","b","a","c","k",".">>,
   source |-> "absent"],
  [name |-> <<"D","e","e">>,
   email |-> <<"d","e","e","@","c","o","r","p",".","c","o","m">>,
   subject |-> <<"Q","u","i","c","k"," ","q","u","e","s","t","i","o","n">>,
   message |-> Pad(1000),
   source |-> "absent"],
  [name |-> <<"D","e","e">>,
   email |-> <<"d","e","e","@","c","o","r","p",".","c","o","m">>,
   subject |-> <<"Q","u","i","c","k"," ","q","u","e","s","t","i","o","n">>,
   message |-> Pad(1001),
   source |-> "absent"],
  [name |-> <<"D","e","e">>,
   email |-> <<"d","e","e","@","c","o","r","p",".","c","o","m">>,
   subject |-> <<"Q","u","i","c","k"," ","q","u","e","s","t","i","o","n">>,
   message |-> Pad(999) \o <<"'">>,
   source |-> "absent"],
  [name |-> <<"M","a","r","y","-","J","a","n","e"," ","S","m","i","t","h">>,
   email |-> <<"d","e","e","@","c","o","r","p",".","c","o","m">>,
   subject |-> <<"Q","u","i","c","k"," ","q","u","e","s","t","i","o","n">>,
   message |-> <<"P","l","e","a","s","e"," ","c","a","l","l"," ","m","e"," ","b","a","c","k",".">>,
   source |-> "absent"],
  [name |-> <<"A","d","a"," ","L","o","v","e","l","a","c","e">>,
   email |-> <<"A","d","a","@","E","x","a","m","p","l","e",".","c","o","m">>,
   subject |-> <<"C","o","l","l","a","b","o","r","a","t","i","o","n"," ","o","p","p","o","r","t","u","n","i","t","y">>,
   message |-> <<"I","'","d"," ","l","i","k","e"," ","t","o"," ","d","i","s","c","u","s","s"," ","a"," ","f","r","e","e","l","a","n","c","e"," ","p","r","o","j","e","c","t",","," ","i","t","'","s"," ","u","r","g","e","n","t",".">>,
   source |-> "absent",
   priority |-> "low",
   tags |-> {"vip"},
   status |-> "archived"],
  [name |-> <<"C","y"," ","Y","o","u","n","g">>,
   email |-> <<"c","y","@","s","i","t","e",".","i","o">>,
   subject |-> <<"H","e","l","l","o"," ","t","h","e","r","e">>,
   message |-> <<"H","i"," ">> \o Pad(201),
   source |-> "absent",
   priority |-> "urgent",
   tags |-> {"urgent"},
   status |-> "replied"],
  [name |-> <<"E","v","e"," ","A","d","a","m","s">>,
   email |-> <<"e","v","e","@","c","o","r","p",".","c","o","m">>,
   subject |-> <<"C","r","i","t","i","c","a","l"," ","o","u","t","a","g","e">>,
   message |-> <<"T","h","e"," ","c","h","e","c","k","o","u","t"," ","p","a","g","e"," ","i","s"," ","d","o","w","n"," ","s","i","n","c","e"," ","t","h","i","s"," ","m","o","r","n","i","n","g",".">>,
   source |-> "absent"]
>>

-----------------------------------------------------------------------------
(* The submit route: validateContact, then ContactController.submitContact *)

AllFields == {"name", "email", "subject", "message"}

\* validateContact: answers 400 at the first failing check, otherwise escapes
\* name, subject and message and calls next()
validateContact(body) ==
  IF body.name = <<>> \/ body.email = <<>> \/ body.subject = <<>> \/ body.message = <<>>
    THEN [next |-> FALSE, named |-> {}, body |-> body]
  ELSE IF ~isEmail(body.email)
    THEN [next |-> FALSE, named |-> {"email"}, body |-> body]
  ELSE IF ~isLength(body.name, 2, 50)
    THEN [next |-> FALSE, named |-> {"name"}, body |-> body]
  ELSE IF ~isLength(body.subject, 5, 100)
    THEN [next |-> FALSE, named |-> {"subject"}, body |-> body]
  ELSE IF ~isLength(body.message, 10, 1000)
    THEN [next |-> FALSE, named |-> {"message"}, body |-> body]
  ELSE [next |-> TRUE, named |-> {},
        body |-> [body EXCEPT !.name = escape(@), !.subject = escape(@),
                              !.message = escape(@)]]

\* submitContact's own checks ("Enhanced validation"): the fields the first
\* failing check names
submitContactChecks(body) ==
  IF body.name = <<>> \/ body.email = <<>> \/ body.subject = <<>> \/ body.message = <<>>
    THEN [pass |-> FALSE, named |-> AllFields]
  ELSE IF ~emailRegex(body.email) THEN [pass |-> FALSE, named |-> {"email"}]
  ELSE IF Len(body.message) < 10 THEN [pass |-> FALSE, named |-> {"message"}]
  ELSE IF Len(body.name) < 2 THEN [pass |-> FALSE, named |-> {"name"}]
  ELSE IF Len(body.subject) < 5 THEN [pass |-> FALSE, named |-> {"subject"}]
  ELSE [pass |-> TRUE, named |-> {}]

\* const { ..., source = 'website' } = req.body
sourceOf(body) == IF body.source = "absent" THEN "website" ELSE body.source

\* a contactData that spreads req.body: a status given in the request is kept
newContactSpreadsBody(body) ==
  [id        |-> 0,
   name      |-> trim(body.name),
   email     |-> toLowerCase(trim(body.email)),
   subject   |-> trim(body.subject),
   message   |-> trim(body.message),
   source    |-> sourceOf(body),
   status    |-> IF "status" \in DOMAIN body THEN body.status ELSE "new",
   priority  |-> IF "priority" \in DOMAIN body THEN body.priority ELSE "normal",
   tags      |-> IF "tags" \in DOMAIN body THEN body.tags ELSE {},
   createdAt |-> NoDate,
   repliedAt |-> NoDate]

\* new Contact(contactData): the controller's contactData, through the
\* schema's setters (trim, lowercase) and defaults (tags, response); the _id
\* and the timestamps are given when the document is saved
newContact(body) ==
  [id        |-> 0,
   name      |-> trim(body.name),
   email     |-> toLowerCase(trim(body.email)),
   subject   |-> trim(body.subject),
   message   |-> trim(body.message),
   source    |-> sourceOf(body),
   status    |-> "new",
   priority  |-> IF Len(body.message) > 200 THEN "high" ELSE "normal",
   tags      |-> {},
   createdAt |-> NoDate,
   repliedAt |-> NoDate]

StatusEnum == {"new", "read", "replied", "archived"}
PriorityEnum == {"low", "normal", "high", "urgent"}
SourceEnum == {"website", "mobile", "api", "admin"}

\* the schema's validators: the paths of the ValidationError (error.errors)
schemaErrors(doc) ==
  {f \in {"name"} :
     ~(/\ doc.name # <<>> /\ Len(doc.name) >= 2 /\ Len(doc.name) <= 50
       /\ nameRegex(doc.name))}
  \cup
  {f \in {"email"} : ~(doc.email # <<>> /\ emailRegex(doc.email))}
  \cup
  {f \in {"subject"} :
     ~(/\ doc.subject # <<>> /\ Len(doc.subject) >= 5 /\ Len(doc.subject) <= 100
       /\ ~hasForbiddenPattern(doc.subject))}
  \cup
  {f \in {"message"} :
     ~(/\ doc.message # <<>> /\ Len(doc.message) >= 10 /\ Len(doc.message) <= 1000
       /\ ~hasForbiddenPattern(doc.message))}
  \cup
  {f \in {"status"} : doc.status \notin StatusEnum}
  \cup
  {f \in {"priority"} : doc.priority \notin PriorityEnum}
  \cup
  {f \in {"source"} : doc.source \notin SourceEnum}

NoAnswer == [code |-> 0, named |-> {}]

\* the submit route up to contact.save(): the 400 answer of the first layer
\* that refuses the body (validateContact, submitContact's checks, the
\* schema's validation inside save), or the document about to be written
submitContactValidate(body) ==
  LET v == validateContact(body)
      c == submitContactChecks(v.body)
      doc == newContact(v.body)
      errs == schemaErrors(doc)
  IN  IF ~v.next THEN [answer |-> [code |-> 400, named |-> v.named], doc |-> doc]
      ELSE IF ~c.pass THEN [answer |-> [code |-> 400, named |-> c.named], doc |-> doc]
      ELSE IF errs # {} THEN [answer |-> [code |-> 400, named |-> errs], doc |-> doc]
      ELSE [answer |-> NoAnswer, doc |-> doc]

\* submitContactValidate of every request body tried (evaluated once)
Validated == [i \in 1..Len(Inputs) |-> submitContactValidate(Inputs[i])]

-----------------------------------------------------------------------------
(* document.save(): the pre-save hooks                                     *)

\* the texts that reach the store, and their classification (evaluated once)
KnownTexts ==
  {[subject |-> Validated[i].doc.subject, message |-> Validated[i].doc.message] :
     i \in {j \in 1..Len(Inputs) : Validated[j].answer = NoAnswer}}

Classified ==
  [t \in KnownTexts |-> [tags |-> extractTags(t), priority |-> determinePriority(t)]]

\* the one element of a singleton set; "The({F(x) : x \in {e}})" is F(e) with e
\* evaluated once
The(S) == CHOOSE x \in S : TRUE

\* this.extractTags() and this.determinePriority() of a document
classify(doc) ==
  The({IF t \in KnownTexts THEN Classified[t]
       ELSE [tags |-> extractTags(t), priority |-> determinePriority(t)] :
         t \in {[subject |-> doc.subject, message |-> doc.message]}})

\* contactSchema.pre('save'), first hook: the trims
preSaveTrim(doc) ==
  [doc EXCEPT !.name = trim(@), !.email = toLowerCase(trim(@)),
              !.subject = trim(@), !.message = trim(@)]

\* a first hook that recomputes the tags but leaves the priority it was given
preSaveKeepsPriority(doc) ==
  The({The({[t EXCEPT !.tags = c.tags] : c \in {classify(t)}}) :
         t \in {preSaveTrim(doc)}})

\* contactSchema.pre('save'), first hook: trim, then recompute tags and priority
preSave(doc) ==
  The({The({[t EXCEPT !.tags = c.tags, !.priority = c.priority] :
              c \in {classify(t)}}) :
         t \in {preSaveTrim(doc)}})

\* contactSchema.pre('save'), second hook: stamp repliedAt once
preSaveReplied(doc, statusModified, t) ==
  IF statusModified /\ doc.status = "replied" /\ doc.repliedAt = NoDate
    THEN [doc EXCEPT !.repliedAt = t]
    ELSE doc

\* document.save() once validation has passed: both hooks, then the write
\* (timestamps: createdAt is set on the first save)
saved(doc, statusModified, t) ==
  The({The({IF d.createdAt = NoDate THEN [d EXCEPT !.createdAt = t] ELSE d :
              d \in {preSaveReplied(p, statusModified, t)}}) :
         p \in {preSave(doc)}})

\* a submitContact that writes the document before looking at the validation
submitContactSaveWritesFirst(v, id, t, outcome) ==
  IF v.answer # NoAnswer
    THEN [answer |-> v.answer,
          insert |-> {saved([v.doc EXCEPT !.id = id], TRUE, t)}]
  ELSE IF outcome = "duplicate"
    THEN [answer |-> [code |-> 409, named |-> {}], insert |-> {}]
  ELSE IF outcome = "error"
    THEN [answer |-> [code |-> 500, named |-> {}], insert |-> {}]
  ELSE [answer |-> NoAnswer,
        insert |-> {saved([v.doc EXCEPT !.id = id], TRUE, t)}]

\* a submitContact whose catch answers 500 to every failure of the store
submitContactSaveOneFailure(v, id, t, outcome) ==
  IF v.answer # NoAnswer THEN [answer |-> v.answer, insert |-> {}]
  ELSE IF outcome \in {"duplicate", "error"}
    THEN [answer |-> [code |-> 500, named |-> {}], insert |-> {}]
  ELSE [answer |-> NoAnswer,
        insert |-> {saved([v.doc EXCEPT !.id = id], TRUE, t)}]

\* a submitContact that goes on after a store error as if the save had succeeded
submitContactSaveIgnoresError(v, id, t, outcome) ==
  IF v.answer # NoAnswer THEN [answer |-> v.answer, insert |-> {}]
  ELSE IF outcome = "duplicate"
    THEN [answer |-> [code |-> 409, named |-> {}], insert |-> {}]
  ELSE IF outcome = "error"
    THEN [answer |-> NoAnswer, insert |-> {}]
  ELSE [answer |-> NoAnswer,
        insert |-> {saved([v.doc EXCEPT !.id = id], TRUE, t)}]

\* request ends here, and the documents written to the collection.
\* v is submitContactValidate of the body; outcome is what the store does
\* with the insert: ok, duplicate (E11000), error
submitContactSave(v, id, t, outcome) ==
  IF v.answer # NoAnswer THEN [answer |-> v.answer, insert |-> {}]
  ELSE IF outcome = "duplicate"
    THEN [answer |-> [code |-> 409, named |-> {}], insert |-> {}]
  ELSE IF outcome = "error"
    THEN [answer |-> [code |-> 500, named |-> {}], insert |-> {}]
  ELSE [answer |-> NoAnswer,
        insert |-> {saved([v.doc EXCEPT !.id = id], TRUE, t)}]

\* a submitContact that awaits sendEmailNotifications before it answers
submitContactAwaitsMail(configured) ==
  [dispatch |-> configured, answer |-> NoAnswer, pc |-> "mailing"]

\* a submitContact without the isConfigured guard around the dispatch
submitContactAlwaysDispatches(configured) ==
  [dispatch |-> TRUE, answer |-> [code |-> 201, named |-> {}], pc |-> "done"]

\* submitContact after the save: whether sendEmailNotifications is called
\* (not awaited), and the answer given in the same turn
submitContactAfterSave(configured) ==
  [dispatch |-> configured, answer |-> [code |-> 201, named |-> {}], pc |-> "done"]

-----------------------------------------------------------------------------
(* The notification dispatcher: sendEmailNotifications and sendEmail       *)

Recipients == {"user", "admin"}
other(k) == IF k = "user" THEN "admin" ELSE "user"

NoSend == [state |-> "none", attempts |-> 0]

\* EmailService.sendEmail up to its await: rejects at once when the service
\* is not configured, otherwise the request to the mail API is under way
sendEmail(m, configured) ==
  IF ~configured
    THEN [state |-> "failed", attempts |-> m.attempts]
    ELSE [state |-> "inflight", attempts |-> m.attempts + 1]

\* a dispatcher that awaits the user's send before it starts the admin's
dispatchSendsInTurn(m, configured) ==
  [k \in Recipients |-> IF k = "user" THEN sendEmail(m[k], configured) ELSE m[k]]

\* the two sendEmail calls inside Promise.all([...]): both are made before
\* either is awaited
dispatchSends(m, configured) ==
  [k \in Recipients |-> sendEmail(m[k], configured)]

\* a sendEmail whose catch sends again
onSendFailureRetries(m) ==
  IF m.attempts < 3 THEN [state |-> "inflight", attempts |-> m.attempts + 1]
  ELSE [state |-> "failed", attempts |-> m.attempts]

\* sendEmail's catch: log and rethrow, the call is over
onSendFailure(m) == [state |-> "failed", attempts |-> m.attempts]

\* the answer of the mail API arrived with response.ok
onSendSuccess(m) == [state |-> "sent", attempts |-> m.attempts]

\* sendEmailNotifications' catch: log, do not rethrow
notificationCatch == "fulfilled"

\* the promise of sendEmailNotifications, given the two sends: Promise.all
\* rejects with the first failure (caught), fulfils when both are sent
notifyState(m) ==
  IF \E k \in Recipients : m[k].state = "failed" THEN notificationCatch
  ELSE IF \A k \in Recipients : m[k].state = "sent" THEN "fulfilled"
  ELSE "pending"

-----------------------------------------------------------------------------
(* State and actions                                                       *)

StoreOutcomes == {"ok", "duplicate", "error"}

\* the status values tried on PATCH /messages/:id/status
StatusInputs == StatusEnum \cup {"responded"}

Ids == 1..MaxRequests

NoRequest == [pc |-> "idle", input |-> 0, answer |-> NoAnswer]

\* no document is with the classifier
NoDoc == [subject |-> <<>>, message |-> <<>>, stage |-> "none",
          tags |-> {}, priority |-> "normal"]

\* req.query of GET /messages with its defaults; "" and <<>> are parameters
\* that are not given
DefaultPage == 1
DefaultLimit == 10
NoQuery == [page |-> DefaultPage, limit |-> DefaultLimit, status |-> "",
            priority |-> "", source |-> "", search |-> <<>>]

\* a count per key, for no key
NoCounts == [k \in {} |-> 0]

\* no GET /messages request so far
NoListing ==
  [stage |-> "none", query |-> NoQuery, contacts |-> <<>>,
   pagination |-> [current |-> 0, pages |-> 0, total |-> 0,
                   hasNext |-> FALSE, hasPrev |-> FALSE],
   counts |-> NoCounts]

\* no GET /stats request and no Contact.getStatistics() call so far
NoStats ==
  [pc |-> "idle", total |-> 0, new |-> 0, responded |-> 0, highPriority |-> 0,
   weekly |-> NoCounts, sources |-> NoCounts, priorities |-> NoCounts,
   facets |-> [computed |-> FALSE, statusCounts |-> NoCounts,
               priorityCounts |-> NoCounts, dailyStats |-> NoCounts,
               tagStats |-> NoCounts]]

PatchIds == 1..MaxPatches

\* no PATCH request in this slot; order is history: the position at which the
\* store applied the update
NoPatch == [pc |-> "idle", id |-> 0, status |-> "", code |-> 0, seen |-> "",
            order |-> 0]

\* sendEmailNotifications not called for this Contact
NoMail == <<>>

\* nothing submitted yet
InitIdle ==
  /\ contacts = <<>>
  /\ requests = [r \in Ids |-> NoRequest]
  /\ mail = [id \in Ids |-> [k \in Recipients |-> NoSend]]
  /\ notify = [id \in Ids |-> "idle"]
  /\ now = 1
  /\ everReplied = {}
  /\ listing = NoListing
  /\ stats = NoStats
  /\ patches = [u \in PatchIds |-> NoPatch]
  /\ replies = <<>>
  /\ outbox = [id \in Ids |-> NoMail]

\* the collection with doc written at its _id
put(coll, doc) ==
  [i \in DOMAIN coll \cup {doc.id} |-> IF i = doc.id THEN doc ELSE coll[i]]

\* the collection without the ids in gone
without(coll, gone) == [i \in DOMAIN coll \ gone |-> coll[i]]

\* the document that the handler of request r holds once its save() has
\* resolved: new Contact(contactData) with its _id, as the hooks of save() left
\* it (without the timestamps)
contactOf(r) == preSave([Validated[requests[r].input].doc EXCEPT !.id = r])

\* sendEmailNotifications(contact): what the templates of the mail to the
\* sender and of the mail to the administrator are given
sendEmailNotifications(contact) ==
  [k \in Recipients |->
     IF k = "user"
       THEN [to |-> contact.email, toName |-> contact.name,
             name |-> contact.name, email |-> contact.email,
             subject |-> contact.subject, message |-> contact.message]
       ELSE [name |-> contact.name, email |-> contact.email,
             subject |-> contact.subject, message |-> contact.message,
             id |-> contact.id]]

\* POST /submit, from validateContact to the end of "await contact.save()";
\* request r is given _id r, and ids are given in order
SubmitContact(r, i, outcome) ==
  /\ requests[r].pc = "idle"
  /\ \A q \in 1..(r - 1) : requests[q].pc # "idle"
  /\ \E res \in {submitContactSave(Validated[i], r, now, outcome)} :
       /\ contacts' = IF res.insert = {} THEN contacts
                      ELSE put(contacts, The(res.insert))
       /\ requests' = [requests EXCEPT ![r] =
                         [pc |-> IF res.answer = NoAnswer THEN "saved" ELSE "done",
                          input |-> i, answer |-> res.answer]]
  /\ UNCHANGED <<isConfigured, mail, notify, now, everReplied, cls, admin, outbox>>

\* submitContact after the save: dispatch the notifications, answer 201
SubmitContinue(r) ==
  /\ requests[r].pc = "saved"
  /\ \E k \in {submitContactAfterSave(isConfigured)},
        m \in {dispatchSends(mail[r], isConfigured)} :
       /\ requests' = [requests EXCEPT ![r].pc = k.pc, ![r].answer = k.answer]
       /\ mail' = IF k.dispatch THEN [mail EXCEPT ![r] = m] ELSE mail
       /\ notify' = IF k.dispatch THEN [notify EXCEPT ![r] = notifyState(m)]
                    ELSE notify
       /\ outbox' = IF k.dispatch
                      THEN [outbox EXCEPT ![r] = sendEmailNotifications(contactOf(r))]
                      ELSE outbox
  /\ UNCHANGED <<isConfigured, contacts, now, everReplied, cls, admin>>

\* the mail API answers a send with response.ok
SendSucceeds(id, k) ==
  /\ mail[id][k].state = "inflight"
  /\ \E m \in {[mail[id] EXCEPT ![k] = onSendSuccess(@)]} :
       /\ mail' = [mail EXCEPT ![id] = m]
       /\ notify' = [notify EXCEPT ![id] =
                       IF @ = "pending" THEN notifyState(m) ELSE @]
  /\ UNCHANGED <<isConfigured, contacts, requests, now, everReplied, cls, admin,
                 outbox>>

\* a send fails: fetch rejects, or the mail API answers without response.ok
SendFails(id, k) ==
  /\ mail[id][k].state = "inflight"
  /\ \E m \in {[mail[id] EXCEPT ![k] = onSendFailure(@)]} :
       /\ mail' = [mail EXCEPT ![id] = m]
       /\ notify' = [notify EXCEPT ![id] =
                       IF @ = "pending" THEN notifyState(m) ELSE @]
  /\ UNCHANGED <<isConfigured, contacts, requests, now, everReplied, cls, admin,
                 outbox>>

\* a findByIdAndUpdate that changes the status only of a Contact that is new
findByIdAndUpdateOnce(coll, id, status) ==
  IF id \in DOMAIN coll /\ status \in StatusEnum /\ coll[id].status = "new"
    THEN [coll EXCEPT ![id].status = status]
    ELSE coll

\* a findByIdAndUpdate without runValidators: any status is written
findByIdAndUpdateUnvalidated(coll, id, status) ==
  IF id \in DOMAIN coll
    THEN [coll EXCEPT ![id].status = status]
    ELSE coll

\* an update that sets the status of every Contact (updateMany)
findByIdAndUpdateEvery(coll, id, status) ==
  IF id \in DOMAIN coll /\ status \in StatusEnum
    THEN [i \in DOMAIN coll |-> [coll[i] EXCEPT !.status = status]]
    ELSE coll

\* Contact.findByIdAndUpdate(id, {status, ...}, {new: true, runValidators: true}):
\* adminNotes and respondedAt are no paths of the schema and are dropped,
\* the save hooks do not run, a status outside the enum is rejected
findByIdAndUpdate(coll, id, status) ==
  IF id \in DOMAIN coll /\ status \in StatusEnum
    THEN [coll EXCEPT ![id].status = status]
    ELSE coll

\* PATCH /messages/:id/status
UpdateContactStatus(id, status) ==
  /\ contacts' = findByIdAndUpdate(contacts, id, status)
  /\ everReplied' = IF id \in DOMAIN contacts' /\ contacts'[id].status = "replied"
                      THEN everReplied \cup {id} ELSE everReplied
  /\ UNCHANGED <<isConfigured, requests, mail, notify, now, cls, admin, outbox>>

\* contactSchema.methods.markAsRead on a stored document
markAsRead(doc, t) ==
  saved([doc EXCEPT !.status = "read"], doc.status # "read", t)

MarkAsRead(id) ==
  /\ id \in DOMAIN contacts
  /\ \E d \in {markAsRead(contacts[id], now)} : contacts' = put(contacts, d)
  /\ UNCHANGED <<isConfigured, requests, mail, notify, now, everReplied, cls, admin,
                 outbox>>

\* contactSchema.methods.markAsReplied on a stored document
markAsReplied(doc, t) ==
  saved([doc EXCEPT !.status = "replied", !.repliedAt = t],
        doc.status # "replied", t)

MarkAsReplied(id) ==
  /\ id \in DOMAIN contacts
  /\ \E d \in {markAsReplied(contacts[id], now)} : contacts' = put(contacts, d)
  /\ everReplied' = everReplied \cup {id}
  /\ UNCHANGED <<isConfigured, requests, mail, notify, now, cls, admin, outbox>>

\* DELETE /messages/:id : Contact.findByIdAndDelete
DeleteContact(id) ==
  /\ contacts' = without(contacts, {id})
  /\ UNCHANGED <<isConfigured, requests, mail, notify, now, everReplied, cls, admin,
                 outbox>>

\* one year, in ticks of the clock (a tick is one year)
OneYear == 1

\* a purge that does not look at the status
cleanupOldMessagesAnyStatus(coll, t) ==
  without(coll, {id \in DOMAIN coll : coll[id].createdAt < t - OneYear})

\* contactSchema.statics.cleanupOldMessages
cleanupOldMessages(coll, t) ==
  without(coll, {id \in DOMAIN coll :
                   coll[id].status = "archived" /\ coll[id].createdAt < t - OneYear})

CleanupOldMessages ==
  /\ contacts' = cleanupOldMessages(contacts, now)
  /\ UNCHANGED <<isConfigured, requests, mail, notify, now, everReplied, cls, admin,
                 outbox>>

\* time passes
Tick ==
  /\ now < MaxTime
  /\ now' = now + 1
  /\ UNCHANGED <<isConfigured, contacts, requests, mail, notify, everReplied, cls, admin,
                 outbox>>

-----------------------------------------------------------------------------
(* PATCH /messages/:id/status as a request of its own, so that several can *)
(* be under way at once                                                    *)

\* what updateContactStatus answers when the store has applied its update to
\* coll: 500 when the update validators refuse the status, 404 when the
\* Contact is not there, else 200 with the Contact as updated
updateContactStatusAnswer(coll, id, status) ==
  IF status \notin StatusEnum THEN [code |-> 500, seen |-> ""]
  ELSE IF id \notin DOMAIN coll THEN [code |-> 404, seen |-> ""]
  ELSE [code |-> 200, seen |-> findByIdAndUpdate(coll, id, status)[id].status]

\* the request arrives: updateContactStatus up to its await
PatchReceive(u, id, status) ==
  /\ patches[u].pc = "idle"
  /\ \A v \in 1..(u - 1) : patches[v].pc # "idle"
  /\ patches' = [patches EXCEPT ![u] = [NoPatch EXCEPT !.pc = "received",
                                                      !.id = id,
                                                      !.status = status]]
  /\ UNCHANGED <<isConfigured, contacts, requests, mail, notify, now,
                 everReplied, cls, listing, stats, replies,
                 outbox>>

\* the store applies the update of request u in one step, and the handler
\* answers with what the store returned
PatchApply(u) ==
  /\ patches[u].pc = "received"
  /\ \E a \in {updateContactStatusAnswer(contacts, patches[u].id, patches[u].status)} :
       patches' = [patches EXCEPT
                     ![u].pc = "done", ![u].code = a.code, ![u].seen = a.seen,
                     ![u].order = 1 + Cardinality({v \in PatchIds :
                                                     patches[v].pc = "done"})]
  /\ contacts' = findByIdAndUpdate(contacts, patches[u].id, patches[u].status)
  /\ everReplied' = IF /\ patches[u].id \in DOMAIN contacts'
                       /\ contacts'[patches[u].id].status = "replied"
                      THEN everReplied \cup {patches[u].id} ELSE everReplied
  /\ UNCHANGED <<isConfigured, requests, mail, notify, now, cls, listing, stats,
                 replies,
                 outbox>>

-----------------------------------------------------------------------------
(* GET /messages: ContactController.getContacts                            *)

\* { $regex: search, $options: 'i' } at position i of a string, for a search
\* made of literal characters and of ".", which stands for any character
regexTestAt(search, str, i) ==
  \A j \in 1..Len(search) :
    search[j] = "." \/ toLowerChar(str[i + j - 1]) = toLowerChar(search[j])

regexTest(search, str) ==
  \E i \in 1..(Len(str) - Len(search) + 1) : regexTestAt(search, str, i)

\* the filter built from req.query: status and priority when given, the
\* search over name, email, subject and message when given
matchesFilter(doc, query) ==
  /\ query.status = "" \/ doc.status = query.status
  /\ query.priority = "" \/ doc.priority = query.priority
  /\ query.search = <<>>
       \/ \E f \in {"name", "email", "subject", "message"} :
            regexTest(query.search, doc[f])

\* the _ids of the documents of coll that the filter selects
matching(coll, query) == {id \in DOMAIN coll : matchesFilter(coll[id], query)}

\* sort({createdAt: -1}), the default sortBy and sortOrder: the orders in which
\* the store can return ids, newest first, documents of one date in any order
sortedOrders(coll, ids) ==
  {o \in [1..Cardinality(ids) -> ids] :
     \A i, j \in 1..Cardinality(ids) :
       i < j => o[i] # o[j] /\ coll[o[i]].createdAt >= coll[o[j]].createdAt}

\* .limit(limit * 1).skip((page - 1) * limit) of an ordered result
skipLimit(o, skip, limit) ==
  [k \in 1..(IF Len(o) - skip < limit
               THEN (IF Len(o) > skip THEN Len(o) - skip ELSE 0)
               ELSE limit) |-> o[skip + k]]

\* Math.ceil(total / limit) for limit >= 1
ceil(total, limit) == (total + limit - 1) \div limit

\* a pagination whose page count is rounded down
paginationRoundedDown(total, query) ==
  [current |-> query.page, pages |-> total \div query.limit, total |-> total,
   hasNext |-> query.page < total \div query.limit, hasPrev |-> query.page > 1]

\* the pagination object of the response
pagination(total, query) ==
  [current |-> query.page, pages |-> ceil(total, query.limit), total |-> total,
   hasNext |-> query.page < ceil(total, query.limit), hasPrev |-> query.page > 1]

\* getContacts up to the end of "await Contact.find(filter)...": the page
GetContactsFind(query) ==
  /\ listing.stage \in {"none", "done"}
  /\ \E o \in sortedOrders(contacts, matching(contacts, query)) :
       listing' = [NoListing EXCEPT
                     !.stage = "found", !.query = query,
                     !.contacts = skipLimit(o, (query.page - 1) * query.limit,
                                            query.limit)]
  /\ UNCHANGED <<isConfigured, contacts, requests, mail, notify, now,
                 everReplied, cls, stats, patches, replies,
                 outbox>>

\* getContacts from "await Contact.countDocuments(filter)" to the response:
\* the data are the page and the pagination, and nothing else
GetContactsCount ==
  /\ listing.stage = "found"
  /\ listing' = [listing EXCEPT
                   !.stage = "done",
                   !.pagination =
                      pagination(Cardinality(matching(contacts, listing.query)),
                                 listing.query)]
  /\ UNCHANGED <<isConfigured, contacts, requests, mail, notify, now,
                 everReplied, cls, stats, patches, replies,
                 outbox>>

-----------------------------------------------------------------------------
(* Statistics: Contact.getStatistics and ContactController.getContactStats *)

\* { $group: { _id: '$field', count: { $sum: 1 } } }
countBy(coll, field) ==
  [v \in {coll[id][field] : id \in DOMAIN coll} |->
     Cardinality({id \in DOMAIN coll : coll[id][field] = v})]

\* { $unwind: '$tags' }, { $group: { _id: '$tags', count: { $sum: 1 } } }
countTags(coll) ==
  [t \in UNION {coll[id].tags : id \in DOMAIN coll} |->
     Cardinality({id \in DOMAIN coll : t \in coll[id].tags})]

\* { $sort: { count: -1 } }, { $limit: n }: n groups of the highest counts
DayLimit == 30
TagLimit == 10
topCounts(counts, n) ==
  IF Cardinality(DOMAIN counts) <= n THEN counts
  ELSE LET keep == CHOOSE K \in SUBSET DOMAIN counts :
                     /\ Cardinality(K) = n
                     /\ \A k \in K, d \in DOMAIN counts \ K : counts[k] >= counts[d]
       IN  [k \in keep |-> counts[k]]

\* { $sort: { _id: -1 } }, { $limit: n }: the n latest days
latestDays(counts, n) ==
  IF Cardinality(DOMAIN counts) <= n THEN counts
  ELSE LET keep == CHOOSE K \in SUBSET DOMAIN counts :
                     /\ Cardinality(K) = n
                     /\ \A k \in K, d \in DOMAIN counts \ K : k > d
       IN  [k \in keep |-> counts[k]]

\* contactSchema.statics.getStatistics: one aggregate with one $facet stage
\* (dates are whole ticks of the clock)
getStatistics(coll) ==
  [computed |-> TRUE,
   statusCounts |-> countBy(coll, "status"),
   priorityCounts |-> countBy(coll, "priority"),
   dailyStats |-> latestDays(countBy(coll, "createdAt"), DayLimit),
   tagStats |-> topCounts(countTags(coll), TagLimit)]

\* sevenDaysAgo: the seven days before t fall into the tick t of the clock
sevenDaysAgo(t) == t

\* getContactStats: the query awaited at position pc, on the store as it is
\* then; the response follows the last query
getContactStatsStep(st, coll, t) ==
  CASE st.pc = "idle" ->
         [st EXCEPT !.pc = "new", !.total = Cardinality(DOMAIN coll)]
    [] st.pc = "new" ->
         [st EXCEPT !.pc = "responded",
                    !.new = Cardinality({id \in DOMAIN coll : coll[id].status = "new"})]
    [] st.pc = "responded" ->
         [st EXCEPT !.pc = "highPriority",
                    !.responded =
                       Cardinality({id \in DOMAIN coll : coll[id].status = "responded"})]
    [] st.pc = "highPriority" ->
         [st EXCEPT !.pc = "weekly",
                    !.highPriority =
                       Cardinality({id \in DOMAIN coll : coll[id].priority = "high"})]
    [] st.pc = "weekly" ->
         [st EXCEPT !.pc = "sources",
                    !.weekly =
                       countBy([id \in {i \in DOMAIN coll :
                                          coll[i].createdAt >= sevenDaysAgo(t)}
                                  |-> coll[id]], "createdAt")]
    [] st.pc = "sources" ->
         [st EXCEPT !.pc = "priorities", !.sources = countBy(coll, "source")]
    [] st.pc = "priorities" ->
         [st EXCEPT !.pc = "done", !.priorities = countBy(coll, "priority")]

\* Contact.getStatistics()
GetStatistics ==
  /\ ~stats.facets.computed
  /\ stats' = [stats EXCEPT !.facets = getStatistics(contacts)]
  /\ UNCHANGED <<isConfigured, contacts, requests, mail, notify, now,
                 everReplied, cls, listing, patches, replies,
                 outbox>>

\* GET /stats: getContactStats from one await to the next
GetContactStatsStep ==
  /\ stats.pc # "done"
  /\ stats' = getContactStatsStep(stats, contacts, now)
  /\ UNCHANGED <<isConfigured, contacts, requests, mail, notify, now,
                 everReplied, cls, listing, patches, replies,
                 outbox>>

-----------------------------------------------------------------------------
(* The requests that name a Contact by req.params.id: getContactById,      *)
(* updateContactStatus, deleteContact; and healthCheck                     *)

HexChars == Digits \cup {"a","b","c","d","e","f","A","B","C","D","E","F"}

\* the last hex digit of the _id given to the n-th document
IdDigits == <<"1","2","3","4","5","6","7","8","9">>

\* _id.toString() of the document with _id id: 24 hex characters
objectId(id) == [i \in 1..24 |-> IF i = 24 THEN IdDigits[id] ELSE "0"]

\* whether the cast of a string to ObjectId succeeds: a string of 24 hex
\* characters; otherwise the query rejects with a CastError
isObjectIdText(p) == Len(p) = 24 /\ \A i \in 1..Len(p) : p[i] \in HexChars

\* the _ids of coll that the ObjectId cast from p equals
idsOf(coll, p) == {id \in DOMAIN coll : toLowerCase(objectId(id)) = toLowerCase(p)}

\* getContactById: Contact.findById(req.params.id), 404 without a document,
\* 500 (the default of ResponseUtil.error) from the catch
getContactById(coll, p) ==
  IF ~isObjectIdText(p) THEN [code |-> 500, data |-> {}, coll |-> coll]
  ELSE IF idsOf(coll, p) = {} THEN [code |-> 404, data |-> {}, coll |-> coll]
  ELSE [code |-> 200, data |-> {coll[id] : id \in idsOf(coll, p)}, coll |-> coll]

\* updateContactStatus: Contact.findByIdAndUpdate(req.params.id, ...); the
\* cast of the id and the update validators reject before the store is asked
updateContactStatus(coll, p, status) ==
  IF ~isObjectIdText(p) \/ status \notin StatusEnum
    THEN [code |-> 500, data |-> {}, coll |-> coll]
  ELSE IF idsOf(coll, p) = {} THEN [code |-> 404, data |-> {}, coll |-> coll]
  ELSE The({[code |-> 200, data |-> {c[id] : id \in idsOf(coll, p)}, coll |-> c] :
              c \in {findByIdAndUpdate(coll, The(idsOf(coll, p)), status)}})

\* a deleteContact that answers 200 whether or not a document was there
deleteContactAlwaysOk(coll, p) ==
  IF ~isObjectIdText(p) THEN [code |-> 500, data |-> {}, coll |-> coll]
  ELSE [code |-> 200, data |-> {}, coll |-> without(coll, idsOf(coll, p))]

\* deleteContact: Contact.findByIdAndDelete(req.params.id); the success
\* response carries no data
deleteContact(coll, p) ==
  IF ~isObjectIdText(p) THEN [code |-> 500, data |-> {}, coll |-> coll]
  ELSE IF idsOf(coll, p) = {} THEN [code |-> 404, data |-> {}, coll |-> coll]
  ELSE [code |-> 200, data |-> {}, coll |-> without(coll, idsOf(coll, p))]

\* the answer a of request op on p (with status st, "" for none) is sent
reply(op, p, st, a) ==
  Append(replies, [op |-> op, param |-> p, status |-> st,
                   code |-> a.code, data |-> a.data])

\* GET /messages/:id
GetContactById(p) ==
  /\ Len(replies) < MaxReplies
  /\ \E a \in {getContactById(contacts, p)} :
       /\ contacts' = a.coll
       /\ replies' = reply("fetch", p, "", a)
  /\ UNCHANGED <<isConfigured, requests, mail, notify, now, everReplied, cls,
                 listing, stats, patches,
                 outbox>>

\* PATCH /messages/:id/status
UpdateContactStatusById(p, status) ==
  /\ Len(replies) < MaxReplies
  /\ \E a \in {updateContactStatus(contacts, p, status)} :
       /\ contacts' = a.coll
       /\ replies' = reply("update", p, status, a)
       /\ everReplied' = everReplied \cup
                           {id \in DOMAIN a.coll :
                              /\ a.code = 200 /\ id \in idsOf(contacts, p)
                              /\ a.coll[id].status = "replied"}
  /\ UNCHANGED <<isConfigured, requests, mail, notify, now, cls,
                 listing, stats, patches,
                 outbox>>

\* DELETE /messages/:id
DeleteContactById(p) ==
  /\ Len(replies) < MaxReplies
  /\ \E a \in {deleteContact(contacts, p)} :
       /\ contacts' = a.coll
       /\ replies' = reply("delete", p, "", a)
  /\ UNCHANGED <<isConfigured, requests, mail, notify, now, everReplied, cls,
                 listing, stats, patches,
                 outbox>>

\* healthCheck: Contact.findOne().limit(1) of a store that answers, then 200
\* with the health information
healthCheck(coll) == [code |-> 200, data |-> {}, coll |-> coll]

\* GET /health
HealthCheck ==
  /\ Len(replies) < MaxReplies
  /\ \E a \in {healthCheck(contacts)} :
       /\ contacts' = a.coll
       /\ replies' = reply("health", <<>>, "", a)
  /\ UNCHANGED <<isConfigured, requests, mail, notify, now, everReplied, cls,
                 listing, stats, patches,
                 outbox>>

-----------------------------------------------------------------------------
(* The store's life cycle: submissions, status changes, deletes, the purge *)
(* and the clock, with the mail service not configured                     *)

StoredIds == 1..MaxStored

\* the request bodies tried here: two that are stored (one with characters to
\* escape and keywords, one longer than 200 characters) and one that is refused
StoredInputs == {1, 3, 4}

StoreInit ==
  /\ InitIdle
  /\ isConfigured = FALSE
  /\ cls = NoDoc

StoreNext ==
  \/ \E r \in StoredIds, i \in StoredInputs, o \in StoreOutcomes :
       SubmitContact(r, i, o)
  \/ \E r \in StoredIds : SubmitContinue(r)
  \/ \E id \in StoredIds, st \in StatusInputs : UpdateContactStatus(id, st)
  \/ \E id \in StoredIds : MarkAsRead(id)
  \/ \E id \in StoredIds : MarkAsReplied(id)
  \/ \E id \in StoredIds : DeleteContact(id)
  \/ CleanupOldMessages
  \/ Tick

StoreSpec == StoreInit /\ [][StoreNext]_vars

-----------------------------------------------------------------------------
(* Submissions and their notifications, with the mail service configured   *)
(* or not at process start                                                 *)

\* the request bodies tried here: three that are stored and five that are
\* refused, by each of the three layers
NotifyInputs == 1..8

NotifyInit ==
  /\ InitIdle
  /\ isConfigured \in BOOLEAN
  /\ cls = NoDoc

NotifyNext ==
  \/ \E r \in Ids, i \in NotifyInputs, o \in StoreOutcomes : SubmitContact(r, i, o)
  \/ \E r \in Ids : SubmitContinue(r)
  \/ \E id \in Ids, k \in Recipients : SendSucceeds(id, k)
  \/ \E id \in Ids, k \in Recipients : SendFails(id, k)

NotifySpec == NotifyInit /\ [][NotifyNext]_vars

-----------------------------------------------------------------------------
(* The submit route at the boundaries of its field rules, with the mail    *)
(* service not configured                                                  *)

\* the request bodies tried here: the names of 1 and 2 characters, the
\* messages of 1000 and 1001 characters, names with an apostrophe and with a
\* hyphen, and the example submission
SubmitInputs == {5} \cup 9..15

SubmitInit ==
  /\ InitIdle
  /\ isConfigured = FALSE
  /\ cls = NoDoc

SubmitNext ==
  \/ \E r \in Ids, i \in SubmitInputs, o \in StoreOutcomes : SubmitContact(r, i, o)
  \/ \E r \in Ids : SubmitContinue(r)

SubmitSpec == SubmitInit /\ [][SubmitNext]_vars

-----------------------------------------------------------------------------
(* The operator's listing of a store filled by submissions, status updates *)
(* and deletes, with the mail service not configured                       *)

\* the request bodies stored here: source website with priority urgent, and
\* source mobile with priority high
ListInputs == {1, 2}

\* the queries tried: every page and page size without a filter, and each
\* filter on its own on the first page of the default size
ListQueries ==
  {[NoQuery EXCEPT !.page = pg, !.limit = l] : pg \in 1..MaxPage, l \in 1..MaxLimit}
    \cup {[NoQuery EXCEPT !.status = "read"],
          [NoQuery EXCEPT !.priority = "urgent"],
          [NoQuery EXCEPT !.source = "mobile"],
          [NoQuery EXCEPT !.search = <<"A","D","A">>],
          [NoQuery EXCEPT !.search = <<"f","r",".","e">>]}

ListInit ==
  /\ InitIdle
  /\ isConfigured = FALSE
  /\ cls = NoDoc

\* one listing request, made of a store that submissions, status updates and
\* deletes have filled and that stays as it is while the request runs
ListNext ==
  \/ \E r \in Ids, i \in ListInputs :
       listing.stage = "none" /\ SubmitContact(r, i, "ok")
  \/ \E r \in Ids : listing.stage = "none" /\ SubmitContinue(r)
  \/ \E id \in Ids : listing.stage = "none" /\ UpdateContactStatus(id, "read")
  \/ \E id \in Ids : listing.stage = "none" /\ DeleteContact(id)
  \/ \E q \in ListQueries : listing.stage = "none" /\ GetContactsFind(q)
  \/ GetContactsCount

ListSpec == ListInit /\ [][ListNext]_vars

-----------------------------------------------------------------------------
(* The statistics of a store that submissions, status updates and deletes  *)
(* change while they are computed, with the mail service not configured    *)

StatsInit ==
  /\ InitIdle
  /\ isConfigured = FALSE
  /\ cls = NoDoc

StatsNext ==
  \/ \E r \in Ids, i \in ListInputs : SubmitContact(r, i, "ok")
  \/ \E r \in Ids : SubmitContinue(r)
  \/ \E id \in Ids : UpdateContactStatus(id, "replied")
  \/ \E id \in Ids : DeleteContact(id)
  \/ GetStatistics
  \/ GetContactStatsStep

StatsSpec == StatsInit /\ [][StatsNext]_vars

-----------------------------------------------------------------------------
(* Concurrent status updates of the first Contact, with the mail service   *)
(* not configured                                                          *)

PatchInit ==
  /\ InitIdle
  /\ isConfigured = FALSE
  /\ cls = NoDoc

PatchNext ==
  \/ \E i \in ListInputs : SubmitContact(1, i, "ok")
  \/ SubmitContinue(1)
  \/ \E u \in PatchIds, st \in StatusInputs : PatchReceive(u, 1, st)
  \/ \E u \in PatchIds : PatchApply(u)

PatchSpec == PatchInit /\ [][PatchNext]_vars

-----------------------------------------------------------------------------
(* Fetches, status updates and deletes by id of a store that holds at most *)
(* the first Contact, with the mail service not configured                 *)

\* an id of the right shape that no document is ever given
AbsentId == [i \in 1..24 |-> "f"]

\* the req.params.id tried: the first Contact's id, an id of the right shape
\* that no Contact has, and a string that is no ObjectId
IdParams == {objectId(1), AbsentId, <<"a","b","c">>}

\* the status values tried on these updates
ByIdStatuses == {"read", "responded"}

ByIdInit ==
  /\ InitIdle
  /\ isConfigured = FALSE
  /\ cls = NoDoc

ByIdNext ==
  \/ SubmitContact(1, 1, "ok")
  \/ SubmitContinue(1)
  \/ \E p \in IdParams : GetContactById(p)
  \/ \E p \in IdParams, st \in ByIdStatuses : UpdateContactStatusById(p, st)
  \/ \E p \in IdParams : DeleteContactById(p)
  \/ \E q \in {NoQuery} : listing.stage = "none" /\ GetContactsFind(q)
  \/ GetContactsCount

ByIdSpec == ByIdInit /\ [][ByIdNext]_vars

-----------------------------------------------------------------------------
(* The purge of a store whose Contacts are submitted and archived at       *)
(* different times, with the mail service not configured                   *)

CleanupInit ==
  /\ InitIdle
  /\ isConfigured = FALSE
  /\ cls = NoDoc

CleanupNext ==
  \/ \E r \in Ids : SubmitContact(r, 3, "ok")
  \/ \E r \in Ids : SubmitContinue(r)
  \/ \E id \in Ids, st \in {"read", "archived"} : UpdateContactStatus(id, st)
  \/ CleanupOldMessages
  \/ Tick

CleanupSpec == CleanupInit /\ [][CleanupNext]_vars

-----------------------------------------------------------------------------
(* Submissions whose body also carries a priority, tags and a status, with *)
(* the mail service not configured                                         *)

\* the request bodies tried here: two that are stored, and the same two with
\* a priority, tags and a status that differ from what is derived
SuppliedInputs == {1, 3, 16, 17}

SuppliedInit ==
  /\ InitIdle
  /\ isConfigured = FALSE
  /\ cls = NoDoc

SuppliedNext ==
  \/ \E r \in Ids, i \in SuppliedInputs, o \in StoreOutcomes : SubmitContact(r, i, o)
  \/ \E r \in Ids : SubmitContinue(r)

SuppliedSpec == SuppliedInit /\ [][SuppliedNext]_vars

-----------------------------------------------------------------------------
(* Every route of the router: a store of up to two Contacts filled by      *)
(* submissions, status updates and deletes, and then read by one listing,  *)
(* by one fetch by id or health check, and by the statistics, first        *)
(* Contact.getStatistics and then GET /stats; the mail service is not      *)
(* configured                                                              *)

FrameIds == {1, 2}

\* no listing, fetch, statistics or health check so far
noReadYet == listing = NoListing /\ stats = NoStats /\ replies = <<>>

FrameInit ==
  /\ InitIdle
  /\ isConfigured = FALSE
  /\ cls = NoDoc

FrameNext ==
  \/ \E r \in FrameIds, i \in ListInputs : noReadYet /\ SubmitContact(r, i, "ok")
  \/ \E r \in FrameIds : noReadYet /\ SubmitContinue(r)
  \/ \E id \in FrameIds, st \in {"read", "replied"} :
       noReadYet /\ UpdateContactStatus(id, st)
  \/ \E id \in FrameIds : noReadYet /\ DeleteContact(id)
  \/ \E p \in {objectId(1), AbsentId} : replies = <<>> /\ GetContactById(p)
  \/ replies = <<>> /\ HealthCheck
  \/ \E q \in {NoQuery} : listing.stage = "none" /\ GetContactsFind(q)
  \/ GetContactsCount
  \/ GetStatistics
  \/ stats.facets.computed /\ GetContactStatsStep

FrameSpec == FrameInit /\ [][FrameNext]_vars

-----------------------------------------------------------------------------
(* Submissions of each priority, with the mail service not configured      *)

\* the request bodies tried here: one with "urgent" in its message, one with
\* "job offer", one without keywords and one with "critical" in its subject
PriorityInputs == {1, 2, 3, 18}

PriorityInit ==
  /\ InitIdle
  /\ isConfigured = FALSE
  /\ cls = NoDoc

PriorityNext ==
  \/ \E r \in Ids, i \in PriorityInputs, o \in StoreOutcomes : SubmitContact(r, i, o)
  \/ \E r \in Ids : SubmitContinue(r)

PrioritySpec == PriorityInit /\ [][PriorityNext]_vars

-----------------------------------------------------------------------------
(* The listing of a store that submissions and deletes change while the    *)
(* request runs, with the mail service not configured                      *)

\* the queries tried: the first page of the default size and of size 1
RaceQueries == {NoQuery, [NoQuery EXCEPT !.limit = 1]}

RaceInit ==
  /\ InitIdle
  /\ isConfigured = FALSE
  /\ cls = NoDoc

RaceNext ==
  \/ \E r \in Ids : SubmitContact(r, 3, "ok")
  \/ \E r \in Ids : SubmitContinue(r)
  \/ \E id \in Ids : DeleteContact(id)
  \/ \E q \in RaceQueries : GetContactsFind(q)
  \/ GetContactsCount

RaceSpec == RaceInit /\ [][RaceNext]_vars

-----------------------------------------------------------------------------
(* The classifier on its own: every subject and message made of up to      *)
(* MaxFragments words, long enough to pass the length checks               *)

Fragments == {
  <<"a","s","a","p">>,
  <<"d","e","a","d","l","i","n","e">>,
  <<"j","o","b">>,
  <<"o","f","f","e","r">>,
  <<"h","e","l","l","o">>
}

RECURSIVE PhrasesOf(_)
\* the phrases of 1..n fragments separated by single spaces
PhrasesOf(n) ==
  IF n = 0 THEN {}
  ELSE Fragments \cup {t \o <<" ">> \o f : t \in PhrasesOf(n - 1), f \in Fragments}

\* subjects end with the last fragment, messages begin with the first one
SubjectsOf(n) == {<<"R","e",":"," ">> \o t : t \in PhrasesOf(n)}
MessagesOf(n) ==
  {t \o <<" ","p","l","e","a","s","e"," ","r","e","p","l","y">> : t \in PhrasesOf(n)}

ClassifyInit ==
  /\ InitIdle
  /\ isConfigured = FALSE
  /\ cls \in {[subject |-> s, message |-> m, stage |-> "input",
               tags |-> {}, priority |-> "normal"] :
                s \in SubjectsOf(MaxFragments), m \in MessagesOf(MaxFragments)}

\* doc.extractTags() and doc.determinePriority() on the document
ClassifyDoc ==
  /\ cls.stage = "input"
  /\ cls' = [cls EXCEPT !.stage = "classified",
                        !.tags = extractTags(cls),
                        !.priority = determinePriority(cls)]
  /\ UNCHANGED <<isConfigured, contacts, requests, mail, notify, now, everReplied, admin,
                 outbox>>

ClassifyNext == ClassifyDoc

ClassifySpec == ClassifyInit /\ [][ClassifyNext]_vars

-----------------------------------------------------------------------------
(* Properties of the stored classification and of the reply timestamp      *)
(* (StoreSpec)                                                             *)

\* C1: after any operation, the tags and the priority of every stored contact
\* are what the classifier gives for its stored subject and message; the
\* priority the controller derives from the message length is never kept
C1_StoredClassification ==
  \A id \in DOMAIN contacts :
    \E c \in {classify(contacts[id])} :
      /\ contacts[id].tags = c.tags
      /\ contacts[id].priority = c.priority

\* a stored contact whose message is longer than 200 characters, that has been
\* through a status change, and whose priority is normal
C1_Witness ==
  \E id \in DOMAIN contacts :
    /\ Len(contacts[id].message) > 200
    /\ contacts[id].status # "new"
    /\ contacts[id].priority = "normal"

\* C2: a stored contact has a reply timestamp exactly when its status has ever
\* been set to replied, whichever operation set it
C2_RepliedAtIffEverReplied ==
  \A id \in DOMAIN contacts :
    (contacts[id].repliedAt # NoDate) <=> (id \in everReplied)

\* C3: a step that turns a contact's status to replied leaves it with a reply
\* timestamp not before its creation, and a reply timestamp once present is
\* neither changed nor cleared while the contact exists
C3_RepliedAtSetOnce ==
  [][\A id \in DOMAIN contacts \cap DOMAIN contacts' :
       /\ (contacts[id].status # "replied" /\ contacts'[id].status = "replied")
            => /\ contacts'[id].repliedAt # NoDate
               /\ contacts'[id].repliedAt >= contacts'[id].createdAt
       /\ (contacts[id].repliedAt # NoDate)
            => contacts'[id].repliedAt = contacts[id].repliedAt]_vars

-----------------------------------------------------------------------------
(* Properties of the classifier (ClassifySpec)                             *)

\* kw occurs in text as a run of consecutive characters
occursIn(kw, text) ==
  \E i \in 1..(Len(text) - Len(kw) + 1) : SubSeq(text, i, i + Len(kw) - 1) = kw

UrgentWords == {
  <<"u","r","g","e","n","t">>,
  <<"a","s","a","p">>,
  <<"e","m","e","r","g","e","n","c","y">>,
  <<"i","m","m","e","d","i","a","t","e","l","y">>,
  <<"c","r","i","t","i","c","a","l">> }

HighWords == {
  <<"i","m","p","o","r","t","a","n","t">>,
  <<"d","e","a","d","l","i","n","e">>,
  <<"h","i","r","i","n","g">>,
  <<"j","o","b"," ","o","f","f","e","r">>,
  <<"c","o","l","l","a","b","o","r","a","t","i","o","n">> }

\* the priority by precedence: urgent words first, then high words, else normal
priorityOfText(text) ==
  IF \E w \in UrgentWords : occursIn(w, text) THEN "urgent"
  ELSE IF \E w \in HighWords : occursIn(w, text) THEN "high"
  ELSE "normal"

\* C4 as stated: the priority is decided, by precedence, on the lower-cased
\* concatenation of subject and message
C4_PriorityOfConcatenation ==
  cls.stage = "classified" =>
    cls.priority = priorityOfText(toLowerCase(cls.subject \o cls.message))

\* C4: the priority is decided, by precedence, on the lower-cased text made of
\* the subject, one space and the message
C4_PriorityOfJoinedText ==
  cls.stage = "classified" =>
    cls.priority =
      priorityOfText(toLowerCase(cls.subject \o <<" ">> \o cls.message))

\* a classified document with an urgent word and a high word, found urgent
C4_Witness ==
  /\ cls.stage = "classified"
  /\ occursIn(<<"a","s","a","p">>, cls.message)
  /\ occursIn(<<"d","e","a","d","l","i","n","e">>, cls.subject)
  /\ cls.priority = "urgent"

-----------------------------------------------------------------------------
(* Properties of the submit route and of the notifications (NotifySpec)    *)

\* C5: once the contact is persisted the handler can go on at once, and when
\* it has gone on the request is answered 201 and the contact is stored,
\* whatever the state of the two sends
C5_AnsweredWithoutWaiting ==
  \A r \in Ids :
    /\ requests[r].pc = "saved" => ENABLED SubmitContinue(r)
    /\ (r \in DOMAIN contacts /\ requests[r].pc # "saved")
         => requests[r].answer.code = 201
    /\ requests[r].answer.code = 201 => r \in DOMAIN contacts

\* two requests answered 201, the sends of one still under way and a send of
\* the other failed
C5_Witness ==
  \E r \in Ids, q \in Ids :
    /\ requests[r].answer.code = 201 /\ requests[q].answer.code = 201
    /\ \A k \in Recipients : mail[r][k].state = "inflight"
    /\ mail[q]["user"].state = "failed"

\* C6: a dispatch attempts both sends, never ends rejected, and the failure of
\* one send leaves the other send as it was
C6_BothSendsIndependent ==
  /\ [](\A id \in Ids :
          /\ notify[id] # "idle" => \A k \in Recipients : mail[id][k].attempts >= 1
          /\ notify[id] # "rejected")
  /\ [][\A id \in Ids, k \in Recipients :
          (mail[id][k].state = "inflight" /\ mail'[id][k].state = "failed")
            => mail'[id][other(k)] = mail[id][other(k)]]_vars

\* a dispatch that is over with the user's send failed and the admin's sent
C6_Witness ==
  \E id \in Ids :
    /\ notify[id] = "fulfilled"
    /\ mail[id]["user"].state = "failed"
    /\ mail[id]["admin"].state = "sent"

\* C7: with the mail service not configured no send is attempted and no
\* dispatch is started, a persisted submission is still answered 201, and the
\* configured flag never changes
C7_UnconfiguredSkipsDispatch ==
  /\ [](~isConfigured =>
          /\ \A id \in Ids : notify[id] = "idle"
          /\ \A id \in Ids, k \in Recipients : mail[id][k] = NoSend
          /\ \A r \in Ids : (r \in DOMAIN contacts /\ requests[r].pc # "saved")
                               => requests[r].answer.code = 201)
  /\ [][isConfigured' = isConfigured]_vars

\* not configured, and a submission persisted and answered 201
C7_Witness ==
  /\ ~isConfigured
  /\ \E r \in Ids : r \in DOMAIN contacts /\ requests[r].answer.code = 201

\* C8: each send is attempted at most once, a failed send is never started
\* again, and nothing is sent once the dispatcher is over
C8_AtMostOnce ==
  /\ [](\A id \in Ids, k \in Recipients : mail[id][k].attempts <= 1)
  /\ [][\A id \in Ids, k \in Recipients :
          /\ mail[id][k].state = "failed" => mail'[id][k] = mail[id][k]
          /\ notify[id] = "fulfilled"
               => mail'[id][k].attempts = mail[id][k].attempts]_vars

\* a dispatch that is over after one attempt of each send, one of them failed
C8_Witness ==
  \E id \in Ids :
    /\ notify[id] = "fulfilled"
    /\ \A k \in Recipients : mail[id][k].attempts = 1
    /\ \E k \in Recipients : mail[id][k].state = "failed"

\* the fields of a request body that break a rule of the submit route: absent,
\* no e-mail address, or a length outside the bounds
violatedFields(body) ==
  {f \in {"name", "email", "subject", "message"} : body[f] = <<>>}
    \cup (IF isLength(trim(body.name), 2, 50) THEN {} ELSE {"name"})
    \cup (IF isEmail(body.email) THEN {} ELSE {"email"})
    \cup (IF isLength(trim(body.subject), 5, 100) THEN {} ELSE {"subject"})
    \cup (IF isLength(trim(body.message), 10, 1000) THEN {} ELSE {"message"})

\* C9: a 400 answer of the submit route names every field of the body that
\* breaks a rule
C9_NamesEveryViolatedField ==
  \A r \in Ids :
    requests[r].answer.code = 400
      => violatedFields(Inputs[requests[r].input]) \subseteq requests[r].answer.named

\* C10: the step that answers a submission 400 leaves the store and the sends
\* unchanged, and a request answered 400 has no contact and no send
C10_RefusalChangesNothing ==
  /\ [](\A r \in Ids :
          requests[r].answer.code = 400
            => /\ r \notin DOMAIN contacts
               /\ notify[r] = "idle"
               /\ \A k \in Recipients : mail[r][k] = NoSend)
  /\ [][(\E r \in Ids : /\ requests[r].answer.code # 400
                        /\ requests'[r].answer.code = 400)
          => /\ contacts' = contacts
             /\ mail' = mail
             /\ notify' = notify]_vars

\* a submission answered 400 while an earlier contact is stored and its sends
\* are under way
C10_Witness ==
  \E r \in Ids, q \in DOMAIN contacts :
    /\ requests[r].answer.code = 400
    /\ mail[q]["user"].state = "inflight"

-----------------------------------------------------------------------------
(* Properties of the submit route at the boundaries (SubmitSpec)           *)

\* the request body of a request that has been received
bodyOf(r) == Inputs[requests[r].input]

\* the rules of the submit route hold for every field of the body but f
validBut(body, f) == violatedFields(body) \subseteq {f}

\* the store refused or failed the insert of request r
storeFailed(r) == requests[r].answer.code \in {409, 500}

\* C11: with the other fields valid, a name of 1 character is answered 400 and
\* nothing is stored, and a name of 2 letters is stored as given and answered
\* 201 when the store takes the insert
C11_NameMinimum ==
  \A r \in Ids :
    requests[r].pc = "done" =>
      /\ (Len(bodyOf(r).name) = 1 /\ validBut(bodyOf(r), "name"))
           => /\ requests[r].answer.code = 400
              /\ r \notin DOMAIN contacts
      /\ (/\ Len(bodyOf(r).name) = 2
          /\ \A i \in 1..2 : bodyOf(r).name[i] \in Letters
          /\ validBut(bodyOf(r), "name")
          /\ ~storeFailed(r))
           => /\ requests[r].answer.code = 201
              /\ r \in DOMAIN contacts
              /\ contacts[r].name = bodyOf(r).name

\* a name of 1 character refused and a name of 2 characters stored
C11_Witness ==
  \E r \in Ids, q \in Ids :
    /\ requests[r].pc = "done" /\ requests[q].pc = "done"
    /\ Len(bodyOf(r).name) = 1 /\ requests[r].answer.code = 400
    /\ Len(bodyOf(q).name) = 2 /\ requests[q].answer.code = 201
    /\ q \in DOMAIN contacts

\* C12: with the other fields valid, every message of 1000 characters is stored
\* and answered 201 when the store takes the insert, and every message of 1001
\* characters is answered 400, whatever its characters
C12_MessageMaximum ==
  \A r \in Ids :
    requests[r].pc = "done" =>
      /\ (/\ Len(bodyOf(r).message) = 1000
          /\ validBut(bodyOf(r), "message")
          /\ ~storeFailed(r))
           => /\ requests[r].answer.code = 201
              /\ r \in DOMAIN contacts
      /\ (Len(bodyOf(r).message) = 1001 /\ validBut(bodyOf(r), "message"))
           => /\ requests[r].answer.code = 400
              /\ r \notin DOMAIN contacts

\* the characters a name may be made of
NameChars == Letters \cup {" ", "-", "'"}

\* C13: with the other fields valid, every name of 2 to 50 characters made of
\* letters, spaces, hyphens and apostrophes is stored and answered 201 when
\* the store takes the insert, and the stored name has only such characters
C13_NameCharacters ==
  \A r \in Ids :
    (/\ requests[r].pc = "done"
     /\ Len(bodyOf(r).name) >= 2 /\ Len(bodyOf(r).name) <= 50
     /\ \A i \in 1..Len(bodyOf(r).name) : bodyOf(r).name[i] \in NameChars
     /\ validBut(bodyOf(r), "name")
     /\ ~storeFailed(r))
      => /\ requests[r].answer.code = 201
         /\ r \in DOMAIN contacts
         /\ \A i \in 1..Len(contacts[r].name) : contacts[r].name[i] \in NameChars

\* the example submission: Ada Lovelace, ada@example.com, "Collaboration
\* opportunity", "I'd like to discuss a freelance project, it's urgent."
AdaSubmission == Inputs[9]

\* C20: the example submission, once stored, has the tags collaboration,
\* freelance and urgent among its tags, priority urgent and status new
C20_ExampleSubmission ==
  \A r \in Ids :
    (/\ requests[r].pc = "done"
     /\ bodyOf(r) = AdaSubmission
     /\ ~storeFailed(r))
      => /\ r \in DOMAIN contacts
         /\ {"collaboration", "freelance", "urgent"} \subseteq contacts[r].tags
         /\ contacts[r].priority = "urgent"
         /\ contacts[r].status = "new"

-----------------------------------------------------------------------------
(* Properties of the listing (ListSpec)                                    *)

\* the least number of pages of size p that hold total items
leastPages(total, p) ==
  CHOOSE n \in 0..total :
    /\ n * p >= total
    /\ \A m \in 0..total : m * p >= total => n <= m

\* C14: a listing answered for page >= 1 and page size p >= 1 reports the
\* number of Contacts its filter selects as total, pages = ceil(total / p),
\* hasNext exactly when page < pages and hasPrev exactly when page > 1
C14_Pagination ==
  /\ [](listing.stage = "done" =>
          /\ listing.pagination.pages =
               leastPages(listing.pagination.total, listing.query.limit)
          /\ listing.pagination.hasNext
               <=> listing.query.page < listing.pagination.pages
          /\ listing.pagination.hasPrev <=> listing.query.page > 1)
  /\ [][(listing.stage = "found" /\ listing'.stage = "done") =>
          listing'.pagination.total =
            Cardinality(matching(contacts, listing.query))]_vars

\* the first page of two Contacts listed one per page
C14_Witness ==
  /\ listing.stage = "done"
  /\ listing.query.page = 1 /\ listing.query.limit = 1
  /\ listing.pagination.total = 2 /\ listing.pagination.pages = 2
  /\ listing.pagination.hasNext /\ ~listing.pagination.hasPrev

\* C15: the answer of a listing carries the number of urgent-priority Contacts
\* and the number of new-status Contacts among all Contacts its filter selects
C15_AuxiliaryCounts ==
  [][(listing.stage = "found" /\ listing'.stage = "done") =>
       /\ DOMAIN listing'.counts = {"urgent", "new"}
       /\ listing'.counts["urgent"] =
            Cardinality({id \in matching(contacts, listing.query) :
                           contacts[id].priority = "urgent"})
       /\ listing'.counts["new"] =
            Cardinality({id \in matching(contacts, listing.query) :
                           contacts[id].status = "new"})]_vars

\* the tags as texts
tagText ==
  [website |-> <<"w","e","b","s","i","t","e">>,
   mobile |-> <<"m","o","b","i","l","e">>,
   frontend |-> <<"f","r","o","n","t","e","n","d">>,
   backend |-> <<"b","a","c","k","e","n","d">>,
   database |-> <<"d","a","t","a","b","a","s","e">>,
   ecommerce |-> <<"e","c","o","m","m","e","r","c","e">>,
   api |-> <<"a","p","i">>,
   urgent |-> <<"u","r","g","e","n","t">>,
   collaboration |-> <<"c","o","l","l","a","b","o","r","a","t","i","o","n">>,
   freelance |-> <<"f","r","e","e","l","a","n","c","e">>,
   job |-> <<"j","o","b">>]

\* the Contact satisfies every filter of the query that is given: status,
\* priority and source by equality, the search as a case-insensitive substring
\* of name, email, subject, message or a tag
satisfiesFilters(doc, query) ==
  /\ query.status = "" \/ doc.status = query.status
  /\ query.priority = "" \/ doc.priority = query.priority
  /\ query.source = "" \/ doc.source = query.source
  /\ query.search = <<>>
       \/ \E f \in {"name", "email", "subject", "message"} :
            occursIn(toLowerCase(query.search), toLowerCase(doc[f]))
       \/ \E t \in doc.tags :
            occursIn(toLowerCase(query.search), tagText[t])

\* C16: a listing whose page is large enough for the whole store returns
\* exactly the Contacts that satisfy all the filters given
C16_ExactlyTheFiltered ==
  [][(/\ listing.stage = "none" /\ listing'.stage = "found"
      /\ listing'.query.page = 1
      /\ listing'.query.limit >= Cardinality(DOMAIN contacts))
       => {listing'.contacts[k] : k \in DOMAIN listing'.contacts}
            = {id \in DOMAIN contacts :
                 satisfiesFilters(contacts[id], listing'.query)}]_vars

-----------------------------------------------------------------------------
(* Properties of the statistics (StatsSpec)                                *)

\* the number of Contacts of the store in a status
inStatus(status) ==
  Cardinality({id \in DOMAIN contacts : contacts[id].status = status})

\* C17: the status distribution of Contact.getStatistics gives, for each status
\* present in the store, the number of Contacts in it, and the counts of
\* GET /stats of new Contacts and of Contacts replied to are those numbers
C17_StatusDistribution ==
  [][/\ (~stats.facets.computed /\ stats'.facets.computed) =>
          /\ DOMAIN stats'.facets.statusCounts =
               {contacts[id].status : id \in DOMAIN contacts}
          /\ \A st \in DOMAIN stats'.facets.statusCounts :
               stats'.facets.statusCounts[st] = inStatus(st)
     /\ (stats.pc = "new" /\ stats'.pc = "responded") =>
          stats'.new = inStatus("new")
     /\ (stats.pc = "responded" /\ stats'.pc = "highPriority") =>
          stats'.responded = inStatus("replied")]_vars

RECURSIVE sumOf(_)
\* the sum of the counts of a distribution
sumOf(counts) ==
  IF DOMAIN counts = {} THEN 0
  ELSE LET k == CHOOSE k \in DOMAIN counts : TRUE
       IN  counts[k] + sumOf([j \in DOMAIN counts \ {k} |-> counts[j]])

\* C18: the facets of one report follow from one state of the store: the
\* per-priority and per-source counts of a GET /stats report sum to its total,
\* and the status, priority and daily counts of Contact.getStatistics have one
\* sum
C18_OneSnapshot ==
  /\ stats.pc = "done" =>
       /\ sumOf(stats.priorities) = stats.total
       /\ sumOf(stats.sources) = stats.total
       /\ stats.new <= stats.total
  /\ stats.facets.computed =>
       /\ sumOf(stats.facets.statusCounts) = sumOf(stats.facets.priorityCounts)
       /\ sumOf(stats.facets.statusCounts) = sumOf(stats.facets.dailyStats)

-----------------------------------------------------------------------------
(* Properties of concurrent status updates (PatchSpec)                     *)

\* the updates the store has applied to a Contact that was there
appliedPatches == {u \in PatchIds : patches[u].pc = "done" /\ patches[u].code = 200}

\* C19: status updates under way at once on one existing Contact are each
\* applied in one step and answered 200 with the Contact carrying the status
\* asked for; the Contact's status is that of the update applied last, and is
\* never anything but a status of the enum
C19_LastWriteWins ==
  /\ [](/\ \A id \in DOMAIN contacts : contacts[id].status \in StatusEnum
        /\ \A u \in appliedPatches : patches[u].seen = patches[u].status
        /\ \A u \in appliedPatches :
             (\A v \in appliedPatches : patches[v].order <= patches[u].order)
               => contacts[patches[u].id].status = patches[u].status)
  /\ [][\A u \in PatchIds :
          (/\ patches[u].pc = "received" /\ patches'[u].pc = "done"
           /\ patches[u].id \in DOMAIN contacts
           /\ patches[u].status \in StatusEnum)
            => /\ patches'[u].code = 200
               /\ contacts'[patches[u].id].status = patches[u].status
               /\ \A f \in DOMAIN contacts[patches[u].id] \ {"status"} :
                    contacts'[patches[u].id][f] = contacts[patches[u].id][f]]_vars

\* two updates with different statuses, the second to arrive applied first,
\* both answered 200, and the Contact in the status of the first to arrive
C19_Witness ==
  /\ patches[1].pc = "done" /\ patches[2].pc = "done"
  /\ patches[1].code = 200 /\ patches[2].code = 200
  /\ patches[1].status # patches[2].status
  /\ patches[2].order < patches[1].order
  /\ contacts[1].status = patches[1].status

-----------------------------------------------------------------------------
(* Properties of the failures of the save (NotifySpec)                     *)

\* the request bodies that pass validateContact and the controller's checks
\* and that the schema's validators refuse inside save()
SchemaRefused ==
  {i \in 1..Len(Inputs) :
     \E v \in {validateContact(Inputs[i])} :
       /\ v.next
       /\ submitContactChecks(v.body).pass
       /\ schemaErrors(newContact(v.body)) # {}}

\* the paths of the ValidationError of each of them
SchemaErrorsOf ==
  [i \in SchemaRefused |-> schemaErrors(newContact(validateContact(Inputs[i]).body))]

\* the request bodies whose document passes every validation
Storable == {i \in 1..Len(Inputs) : Validated[i].answer = NoAnswer}

\* nothing is stored and nothing is dispatched in this step
nothingAddedOrSent ==
  contacts' = contacts /\ mail' = mail /\ notify' = notify

\* C21: a failure of the save is answered according to its kind, 400 with the
\* fields for a schema validation error, 409 for a duplicate key, 500 for any
\* other failure of the store, and in each case no Contact is added and no
\* notification is dispatched, neither in that step nor later
C21_SaveFailures ==
  /\ [](\A r \in Ids :
          (requests[r].pc = "done" /\ requests[r].answer.code \in {400, 409, 500})
            => /\ r \notin DOMAIN contacts
               /\ notify[r] = "idle"
               /\ \A k \in Recipients : mail[r][k] = NoSend)
  /\ [][\A r \in Ids :
          (requests[r].pc = "idle" /\ requests'[r].pc # "idle") =>
            \A i \in {requests'[r].input}, o \in StoreOutcomes :
              SubmitContact(r, i, o) =>
                /\ i \in SchemaRefused =>
                     /\ requests'[r].answer.code = 400
                     /\ requests'[r].answer.named # {}
                     /\ requests'[r].answer.named = SchemaErrorsOf[i]
                     /\ nothingAddedOrSent
                /\ (i \in Storable /\ o = "duplicate") =>
                     /\ requests'[r].answer.code = 409
                     /\ nothingAddedOrSent
                /\ (i \in Storable /\ o = "error") =>
                     /\ requests'[r].answer.code = 500
                     /\ nothingAddedOrSent]_vars

\* with the mail service configured, one submission refused by the schema and
\* one refused by the store as a duplicate
C21_Witness ==
  /\ isConfigured
  /\ requests[1].pc = "done" /\ requests[1].input \in Storable
  /\ requests[1].answer.code = 409
  /\ requests[2].pc = "done" /\ requests[2].input \in SchemaRefused
  /\ requests[2].answer.code = 400

-----------------------------------------------------------------------------
(* Properties of the requests that name a Contact by id (ByIdSpec)         *)

\* the answer sent in this step, if one is sent
sentNow == IF Len(replies') = Len(replies) + 1 THEN {replies'[Len(replies')]} ELSE {}

\* the params of the deletes answered 200 so far, in lower case
deletedParams ==
  {toLowerCase(replies[k].param) :
     k \in {j \in 1..Len(replies) : replies[j].op = "delete" /\ replies[j].code = 200}}

\* a request that names, by an id of the right shape, a Contact that is not
\* in the store
namesNoContact(e) ==
  /\ e.op \in {"fetch", "update", "delete"}
  /\ isObjectIdText(e.param)
  /\ idsOf(contacts, e.param) = {}

\* the deletes answered 200 stay deleted: a later fetch or delete of the same
\* id, or update of it to a status of the enum, is answered 404, and no later
\* answer succeeds or carries the Contact
staysDeleted ==
  \A i, j \in 1..Len(replies) :
    (/\ i < j
     /\ replies[i].op = "delete" /\ replies[i].code = 200
     /\ toLowerCase(replies[j].param) = toLowerCase(replies[i].param))
      => /\ replies[j].data = {}
         /\ replies[j].code # 200
         /\ (replies[j].op = "update" => replies[j].status \in StatusEnum)
              => replies[j].code = 404

\* the page found in this step holds no Contact that was deleted before
listsNoDeleted ==
  (listing'.stage = "found" /\ listing.stage # "found")
    => \A k \in 1..Len(listing'.contacts) :
         /\ listing'.contacts[k] \in DOMAIN contacts
         /\ toLowerCase(objectId(listing'.contacts[k])) \notin deletedParams

C23_MalformedIdentifier ==
  [][\A e \in sentNow :
       (e.op \in {"fetch", "update", "delete"} /\ ~isObjectIdText(e.param))
         => e.code = 400 /\ contacts' = contacts]_vars

-----------------------------------------------------------------------------
(* Properties of the purge (CleanupSpec)                                   *)

\* archived, and created more than one year before now
purgeable(doc) == doc.status = "archived" /\ now - doc.createdAt > OneYear

\* C24: cleanupOldMessages removes exactly the Contacts that are archived and
\* were created more than one year before the call, and leaves every other
\* Contact present and unchanged
C24_PurgeExactly ==
  [][CleanupOldMessages =>
       /\ DOMAIN contacts' \subseteq DOMAIN contacts
       /\ \A id \in DOMAIN contacts :
            IF purgeable(contacts[id])
              THEN id \notin DOMAIN contacts'
              ELSE id \in DOMAIN contacts' /\ contacts'[id] = contacts[id]]_vars

\* the purge has removed the first Contact (this specification has no
\* delete) and has left an archived Contact that is exactly one year old
C24_Witness ==
  /\ requests[1].answer.code = 201 /\ 1 \notin DOMAIN contacts
  /\ \E id \in DOMAIN contacts :
       contacts[id].status = "archived" /\ now - contacts[id].createdAt = OneYear

-----------------------------------------------------------------------------
(* Properties of what a submission can set (SuppliedSpec)                  *)

\* the fields of a request body that the form has
formFields(body) ==
  [f \in {"name", "email", "subject", "message", "source"} |-> body[f]]

\* the request body carries a priority, tags and a status
supplies(body) == {"priority", "tags", "status"} \subseteq DOMAIN body

\* C25: two submissions that differ only in a priority, tags or status given
\* in the request store Contacts of the same priority and tags, both of
\* status new
C25_SuppliedValuesIgnored ==
  \A r, q \in DOMAIN contacts :
    formFields(bodyOf(r)) = formFields(bodyOf(q))
      => /\ contacts[r].priority = contacts[q].priority
         /\ contacts[r].tags = contacts[q].tags
         /\ contacts[r].status = "new" /\ contacts[q].status = "new"

\* two stored submissions of the same form fields, the second with a priority,
\* tags and a status of its own
C25_Witness ==
  /\ {1, 2} \subseteq DOMAIN contacts
  /\ formFields(bodyOf(1)) = formFields(bodyOf(2))
  /\ ~supplies(bodyOf(1)) /\ supplies(bodyOf(2))
  /\ bodyOf(2).priority # contacts[2].priority
  /\ bodyOf(2).tags # contacts[2].tags
  /\ bodyOf(2).status # contacts[2].status

-----------------------------------------------------------------------------
(* Properties of what each route changes (FrameSpec)                       *)

\* the fields of a Contact that a status update leaves alone
FrozenFields ==
  {"id", "name", "email", "subject", "message", "tags", "priority", "source",
   "createdAt"}

\* C26: a Contact appears in the store only in a step of a submission, and the
\* store changes only in a step of a submission, a status update or a delete;
\* a status update leaves the frozen fields of its Contact and every other
\* Contact as they were; a step of the listing, the fetch by id, the
\* statistics or the health check leaves the store as it was
C26_Frame ==
  [][/\ \A id \in DOMAIN contacts \cap DOMAIN contacts' :
          \A f \in FrozenFields : contacts'[id][f] = contacts[id][f]
     /\ \A id \in FrameIds, st \in StatusInputs :
          UpdateContactStatus(id, st) =>
            /\ DOMAIN contacts' = DOMAIN contacts
            /\ \A o \in DOMAIN contacts \ {id} : contacts'[o] = contacts[o]
     /\ ~(DOMAIN contacts' \subseteq DOMAIN contacts) =>
          \E r \in Ids :
            /\ requests[r].pc = "idle" /\ requests'[r].pc = "saved"
            /\ DOMAIN contacts' = DOMAIN contacts \cup {r}
            /\ \A o \in DOMAIN contacts : contacts'[o] = contacts[o]
     /\ contacts' # contacts =>
          \/ \E r \in Ids, i \in 1..Len(Inputs), o \in StoreOutcomes :
               SubmitContact(r, i, o)
          \/ \E id \in FrameIds, st \in StatusInputs : UpdateContactStatus(id, st)
          \/ \E id \in FrameIds : DeleteContact(id)
     /\ (listing' # listing \/ stats' # stats \/ replies' # replies) =>
          contacts' = contacts]_vars

\* the first of two Contacts has been set to replied, and the store has then
\* been listed, fetched from and counted
C26_Witness ==
  /\ DOMAIN contacts = {1, 2}
  /\ contacts[1].status = "replied" /\ contacts[2].status = "new"
  /\ listing.stage = "done" /\ Len(listing.contacts) = 2
  /\ stats.pc = "done" /\ stats.facets.computed
  /\ Len(replies) = 1 /\ replies[1].op = "fetch" /\ replies[1].code = 200

-----------------------------------------------------------------------------
(* Properties of the order of save and notification (NotifySpec)           *)

\* a send has been attempted for the Contact of request id
sendAttempted(id) ==
  outbox[id] # NoMail \/ \E k \in Recipients : mail[id][k] # NoSend

\* the mails are made of the id and the fields of doc
carries(box, doc) ==
  /\ box["admin"].id = doc.id
  /\ box["user"].to = doc.email /\ box["user"].toName = doc.name
  /\ \A k \in Recipients :
       /\ box[k].name = doc.name /\ box[k].email = doc.email
       /\ box[k].subject = doc.subject /\ box[k].message = doc.message

\* C27: a send is attempted only for a submission whose save has succeeded,
\* never for one that validation or the store refused, and at the moment of
\* the dispatch the mails carry the id and the fields of a Contact that is in
\* the store
C27_SendAfterSave ==
  /\ [](\A id \in Ids :
          sendAttempted(id) =>
            /\ requests[id].pc = "done" /\ requests[id].answer.code = 201
            /\ Validated[requests[id].input].answer = NoAnswer
            /\ outbox[id] # NoMail)
  /\ [][\A id \in Ids :
          (~sendAttempted(id) /\ sendAttempted(id)') =>
            /\ requests[id].pc = "saved"
            /\ id \in DOMAIN contacts
            /\ carries(outbox'[id], contacts[id])
            /\ \A k \in Recipients : mail'[id][k].attempts = 1]_vars

\* with the mail service configured: the first submission is stored and its
\* mails are sent, the second fails in the store and nothing is sent for it
C27_Witness ==
  /\ isConfigured
  /\ requests[1].answer.code = 201 /\ 1 \in DOMAIN contacts
  /\ outbox[1] # NoMail /\ \A k \in Recipients : mail[1][k].state = "sent"
  /\ requests[2].answer.code = 500 /\ ~sendAttempted(2)

-----------------------------------------------------------------------------
(* Properties of the status values (PatchSpec)                             *)

\* C28: the status of every stored Contact is one of new, read, replied and
\* archived; a Contact enters the store with status new; a status update that
\* carries any other value is refused and leaves the store as it was
C28_StatusEnum ==
  /\ [](\A id \in DOMAIN contacts : contacts[id].status \in StatusEnum)
  /\ [][/\ \A id \in DOMAIN contacts' \ DOMAIN contacts :
             contacts'[id].status = "new"
        /\ \A u \in PatchIds :
             (/\ patches[u].pc = "received" /\ patches'[u].pc = "done"
              /\ patches[u].status \notin StatusEnum)
               => /\ patches'[u].code >= 400
                  /\ contacts' = contacts]_vars

\* the first update set the Contact to read, the second carried a value that
\* is no status and was refused
C28_Witness ==
  /\ 1 \in DOMAIN contacts /\ contacts[1].status = "read"
  /\ patches[1].pc = "done" /\ patches[1].status = "read" /\ patches[1].code = 200
  /\ patches[2].pc = "done" /\ patches[2].status \notin StatusEnum
  /\ patches[2].code = 500 /\ patches[1].order < patches[2].order

-----------------------------------------------------------------------------
(* Properties of the tag urgent and the priority urgent (PrioritySpec)     *)

\* C29: every stored Contact has the tag urgent if and only if its priority
\* is urgent
C29_UrgentTagIffUrgentPriority ==
  \A id \in DOMAIN contacts :
    ("urgent" \in contacts[id].tags) <=> (contacts[id].priority = "urgent")

-----------------------------------------------------------------------------
(* Properties of the listing of a changing store (RaceSpec)                *)

\* C30: the page and the total of an answer of getContacts describe one set
\* of matching Contacts: the page holds no more items than total, a page that
\* holds items is one of the pages counted, and hasNext is true when total
\* says that Contacts follow the page
C30_PageWithinTotal ==
  listing.stage = "done" =>
    /\ Len(listing.contacts) <= listing.pagination.total
    /\ Len(listing.contacts) > 0 =>
         listing.pagination.current <= listing.pagination.pages
    /\ listing.pagination.hasNext
         = (listing.pagination.total
              > (listing.query.page - 1) * listing.query.limit
                  + Len(listing.contacts))

====
